---- MODULE Spec2Model ----
(***************************************************************************)
(* SHOT: the task-graph engine driven by the solution strategies           *)
(* (SolutionStrategySingleTree, SolutionStrategyNLP) and the algebraic     *)
(* model: terms and term collections (Terms.h), constraints                *)
(* (Constraints.h) and expression trees (NonlinearExpressions.h).          *)
(***************************************************************************)
EXTENDS Integers, Sequences, FiniteSets, TLC

(***************************************************************************)
(* Bounds                                                                  *)
(***************************************************************************)
\* longest plain (no Conditional/Goto) task graph that is enumerated
MaxPlainLen == 3
\* largest number of terms a term collection is grown to
MaxTerms == 2
\* largest number of elements of a signomial term that is classified
MaxElements == 2
\* largest number of children of an ExpressionTimes node that is evaluated
MaxChildren == 3

VARIABLES
    cfg,          \* settings and problem properties read by the constructor
    taskIDMap,    \* TaskHandler: ordered list of (taskID, task) slots
    nextTask,     \* TaskHandler: cursor, an index into taskIDMap; Len+1 = end()
    m_tasks,      \* TaskSequential (tFinalizeSolution): its private sub-task list
    status,       \* position of solveProblem: "running", "returned", "exception"
    result,       \* return value of solveProblem (read only once it has returned)
    failed,       \* shared solver state: the current iteration recorded an error
    lastTask,     \* taskID of the slot whose task ran last ("" before the first)
    lastSlot,     \* index of that slot (0 before the first)
    lastOutcome,  \* predicate outcome of that task: "true", "false", "none"
    lastRedirect, \* taskID last given to setNextTask during that run ("" if none)
    lastSubTasks, \* ids of the sub-tasks that run executed, in order
    executed,     \* first MaxPlainLen taskIDs that were run, in order
    sinceSolveIter, \* SolveIter and the limit checks that ran since SolveIter ran last
    kind,         \* term collection: "Linear", "Quadratic", "Monomial", "Signomial"
    terms,        \* term collection: the std::vector<T> contents
    convexity,    \* term collection: cached E_Convexity
    monotonicity, \* term collection: cached E_Monotonicity
    lastQuery,    \* term collection: last getter called, "none" after a mutation
    lastValue,    \* term collection: value that getter returned
    self,         \* object a member function is called on ("none": no such object)
    args,         \* arguments of that call
    call,         \* member function called last ("none" before the first call)
    ret           \* what that call returned, and what it evaluated on the way

engineVars == <<cfg, taskIDMap, nextTask, m_tasks, status, result, failed,
                lastTask, lastSlot, lastOutcome, lastRedirect, lastSubTasks,
                executed, sinceSolveIter>>
termVars == <<kind, terms, convexity, monotonicity, lastQuery, lastValue>>
vars == <<cfg, taskIDMap, nextTask, m_tasks, status, result, failed,
          lastTask, lastSlot, lastOutcome, lastRedirect, lastSubTasks, executed,
          sinceSolveIter,
          kind, terms, convexity, monotonicity, lastQuery, lastValue,
          self, args, call, ret>>
callVars == <<self, args, call, ret>>

(***************************************************************************)
(* Tasks.  A task object is a record: id is the object's identity (the     *)
(* constructor's local variable), type its class, ifTrue/ifFalse the task  *)
(* IDs given to its constructor.                                           *)
(***************************************************************************)
NewTask(id, type, ifTrue, ifFalse) ==
    [id |-> id, type |-> type, ifTrue |-> ifTrue, ifFalse |-> ifFalse]

\* classes whose run() redirects to taskIDIfTrue when their predicate holds
\* and otherwise leaves the cursor alone
OneTargetTypes ==
    {"TaskCheckAbsoluteGap", "TaskCheckRelativeGap", "TaskCheckIterationLimit",
     "TaskCheckTimeLimit", "TaskCheckUserTermination",
     "TaskCheckConstraintTolerance", "TaskCheckIterationError",
     "TaskCheckMaxNumberOfPrimalReductionCuts", "TaskCheckDualStagnation"}

\* classes whose run() redirects to taskIDIfTrue or to taskIDIfFalse
TwoTargetTypes ==
    {"TaskCheckPrimalStagnation", "TaskAddPrimalReductionCut",
     "TaskRepairInfeasibleDualProblem"}

IsConditional(t) == t.type \in OneTargetTypes \cup TwoTargetTypes

(***************************************************************************)
(* TaskHandler                                                             *)
(***************************************************************************)
\* TaskHandler::addTask: every call appends its own (taskID, task) slot
addTask(map, task, taskID) == Append(map, [name |-> taskID, task |-> task])

\* the slots produced by a sequence of addTask calls
RECURSIVE AddAll(_, _)
AddAll(map, calls) ==
    IF calls = <<>> THEN map
    ELSE AddAll(addTask(map, Head(calls).task, Head(calls).name), Tail(calls))

\* indices of the slots bound to taskID
SlotsOf(map, taskID) == {i \in 1..Len(map) : map[i].name = taskID}

\* TaskHandler::setNextTask: the cursor moves to the first slot bound to
\* taskID; 0 stands for the exception thrown when no slot is bound to it
setNextTask(map, taskID) ==
    IF SlotsOf(map, taskID) = {} THEN 0
    ELSE CHOOSE i \in SlotsOf(map, taskID) : \A j \in SlotsOf(map, taskID) : i <= j

\* TaskHandler::getNextTask: FALSE at end(), otherwise hands out the slot
\* under the cursor (and the caller's cursor moves one slot on)
getNextTask(map, cur) == cur >= 1 /\ cur <= Len(map)

(***************************************************************************)
(* Task classes: what run() does to the cursor.  cur is the cursor after   *)
(* getNextTask moved it on; b is the value of the task's predicate over    *)
(* the shared solver state.  The result is the new cursor (0: exception)   *)
(* and the taskID given to setNextTask ("" when there was no redirect).    *)
(***************************************************************************)
NoRedirect(cur) == [cur |-> cur, redirect |-> "", ran |-> <<>>]
Redirect(map, taskID) ==
    [cur |-> setNextTask(map, taskID), redirect |-> taskID, ran |-> <<>>]

\* TaskGoto::run
RunGoto(map, t, cur) == Redirect(map, t.ifTrue)

\* run() of the one-target check tasks
RunOneTarget(map, t, b, cur) ==
    IF b THEN Redirect(map, t.ifTrue) ELSE NoRedirect(cur)

\* run() of the two-target tasks
RunTwoTarget(map, t, b, cur) ==
    IF b THEN Redirect(map, t.ifTrue) ELSE Redirect(map, t.ifFalse)

\* run() of a task that is not a TaskSequential
RunSimple(map, t, b, cur) ==
    IF t.type = "TaskGoto" THEN RunGoto(map, t, cur)
    ELSE IF t.type \in OneTargetTypes THEN RunOneTarget(map, t, b, cur)
    ELSE IF t.type \in TwoTargetTypes THEN RunTwoTarget(map, t, b, cur)
    ELSE NoRedirect(cur)

\* TaskSequential::run: runs every sub-task in the order it was added; the
\* sub-tasks act on the one cursor of the TaskHandler.  outs[i] is the value
\* of the predicate of sub-task i; an exception ends the run at once.
RECURSIVE RunSequential(_, _, _, _, _)
RunSequential(map, subs, outs, i, acc) ==
    IF i > Len(subs) \/ acc.cur = 0 THEN acc
    ELSE LET r == RunSimple(map, subs[i], outs[i], acc.cur)
         IN  RunSequential(map, subs, outs, i + 1,
                 [cur |-> r.cur,
                  redirect |-> IF r.redirect = "" THEN acc.redirect ELSE r.redirect,
                  ran |-> Append(acc.ran, subs[i].id)])

(***************************************************************************)
(* Configuration read by the strategy constructors                         *)
(***************************************************************************)
Strategies == {"SingleTree", "NLP"}

\* a record of everything the constructors test:
\*   esh            CutStrategy = ESH
\*   nonlinear      numberOfNonlinearConstraints > 0
\*   relaxation     Relaxation.Use
\*   presolve       MIP.Presolve.Frequency != Never
\*   linesearch     Linesearch.Use
\*   assumeConvex   Convexity strategy = AssumeConvex
\*   problemConvex  reformulatedProblem->properties.convexity = Convex
\*   fixedInteger   FixedInteger.Use
\*   discrete       reformulatedProblem->properties.isDiscrete
\*   objNonlinear   objective classification > Quadratic
\*   integerCuts    HyperplaneCuts.UseIntegerCuts
Config(s, e, n, r, p, l, a, pc, f, d, o, i) ==
    [strategy |-> s, esh |-> e, nonlinear |-> n, relaxation |-> r, presolve |-> p,
     linesearch |-> l, assumeConvex |-> a, problemConvex |-> pc,
     fixedInteger |-> f, discrete |-> d, objNonlinear |-> o, integerCuts |-> i,
     plain |-> <<>>]

\* the settings each constructor does not read are held FALSE
SingleTreeConfigs ==
    {Config("SingleTree", e, n, r, p, l, a, FALSE, f, d, o, i) :
        e \in BOOLEAN, n \in BOOLEAN, r \in BOOLEAN, p \in BOOLEAN, l \in BOOLEAN,
        a \in BOOLEAN, f \in BOOLEAN, d \in BOOLEAN, o \in BOOLEAN, i \in BOOLEAN}

NLPConfigs ==
    {Config("NLP", e, n, FALSE, p, l, a, c, FALSE, FALSE, o, FALSE) :
        e \in BOOLEAN, n \in BOOLEAN, p \in BOOLEAN, l \in BOOLEAN,
        a \in BOOLEAN, c \in BOOLEAN, o \in BOOLEAN}

Call(task, taskID) == [task |-> task, name |-> taskID]
Plain(id, type) == NewTask(id, type, "", "")
When(cond, calls) == IF cond THEN calls ELSE <<>>

(***************************************************************************)
(* SolutionStrategySingleTree::SolutionStrategySingleTree                  *)
(***************************************************************************)
tFinalizeSolution == Plain("tFinalizeSolution", "TaskSequential")
tInitializeIteration == Plain("tInitializeIteration", "TaskInitializeIteration")
tAddHPs == Plain("tAddHPs", "TaskAddHyperplanes")
tSelectPrimSolPool ==
    Plain("tSelectPrimSolPool", "TaskSelectPrimalCandidatesFromSolutionPool")
tSelectPrimLinesearch ==
    Plain("tSelectPrimLinesearch", "TaskSelectPrimalCandidatesFromLinesearch")
tRepairInfeasibility ==
    NewTask("tRepairInfeasibility", "TaskRepairInfeasibleDualProblem",
            "SolveIter", "CheckAbsGap")
tCheckAbsGap == NewTask("tCheckAbsGap", "TaskCheckAbsoluteGap", "FinalizeSolution", "")
tCheckRelGap == NewTask("tCheckRelGap", "TaskCheckRelativeGap", "FinalizeSolution", "")
\* (mutant) the two targets exchanged
tCheckPrimalStagSwapped ==
    NewTask("tCheckPrimalStag", "TaskCheckPrimalStagnation",
            "CheckDualStag", "AddObjectiveCut")
tCheckPrimalStag ==
    NewTask("tCheckPrimalStag", "TaskCheckPrimalStagnation",
            "AddObjectiveCut", "CheckDualStag")
tAddObjectiveCut ==
    NewTask("tAddObjectiveCut", "TaskAddPrimalReductionCut",
            "CheckDualStag", "CheckDualStag")
tSelectPrimFixedNLPSolPool ==
    Plain("tSelectPrimFixedNLPSolPool", "TaskSelectPrimalFixedNLPPointsFromSolutionPool")
tSelectPrimNLPCheck == Plain("tSelectPrimNLPCheck", "TaskSelectPrimalCandidatesFromNLP")
\* (mutant) the jump goes back to the iteration set-up
tGotoInitIter == NewTask("tGoto", "TaskGoto", "InitIter", "")
tGoto == NewTask("tGoto", "TaskGoto", "SolveIter", "")
\* (mutant) the final reduction cut restarts at the dual solve
tAddObjectiveCutFinalSolveIter ==
    NewTask("tAddObjectiveCutFinal", "TaskAddPrimalReductionCut",
            "SolveIter", "Terminate")
tAddObjectiveCutFinal ==
    NewTask("tAddObjectiveCutFinal", "TaskAddPrimalReductionCut",
            "InitIter2", "Terminate")
tTerminate == Plain("tTerminate", "TaskTerminate")

\* InitMIPSolver .. SolveIter
SingleTreeSetup(c) ==
    <<Call(Plain("tInitMIPSolver", "TaskInitializeDualSolver"), "InitMIPSolver"),
      Call(Plain("tReformulateProblem", "TaskReformulateProblem"), "ReformulateProb")>>
    \o When(c.esh /\ c.nonlinear,
            <<Call(Plain("tFindIntPoint", "TaskFindInteriorPoint"), "FindIntPoint")>>)
    \o <<Call(Plain("tCreateDualProblem", "TaskCreateDualProblem"), "CreateDualProblem"),
         Call(Plain("tInitializeLinesearch", "TaskInitializeLinesearch"),
              "InitializeLinesearch"),
         Call(tInitializeIteration, "InitIter"),
         Call(tAddHPs, "AddHPs")>>
    \o When(c.relaxation,
            <<Call(Plain("tExecuteRelaxStrategy", "TaskExecuteRelaxationStrategy"),
                   "ExecRelaxStrategyInitial")>>)
    \o When(c.presolve, <<Call(Plain("tPresolve", "TaskPresolve"), "Presolve")>>)
    \o <<Call(Plain("tSolveIteration", "TaskSolveIteration"), "SolveIter")>>

\* SelectPrimSolPool .. PrintIterReport
SingleTreePrimal(c) ==
    <<Call(tSelectPrimSolPool, "SelectPrimSolPool")>>
    \o When(c.linesearch /\ c.nonlinear,
            <<Call(tSelectPrimLinesearch, "SelectPrimLinesearch")>>)
    \o <<Call(Plain("tPrintIterReport", "TaskPrintIterationReport"), "PrintIterReport")>>

\* RepairInfeasibility
SingleTreeRepair(c) ==
    When(~c.assumeConvex, <<Call(tRepairInfeasibility, "RepairInfeasibility")>>)

\* CheckAbsGap .. CheckIterError
SingleTreeChecks(c) ==
    <<Call(tCheckAbsGap, "CheckAbsGap"),
      Call(tCheckRelGap, "CheckRelGap"),
      Call(NewTask("tCheckIterLim", "TaskCheckIterationLimit", "FinalizeSolution", ""),
           "CheckIterLim"),
      Call(NewTask("tCheckTimeLim", "TaskCheckTimeLimit", "FinalizeSolution", ""),
           "CheckTimeLim"),
      Call(NewTask("tCheckConstrTol", "TaskCheckConstraintTolerance",
                   "FinalizeSolution", ""), "CheckConstrTol"),
      Call(NewTask("tCheckIterError", "TaskCheckIterationError", "FinalizeSolution", ""),
           "CheckIterError")>>

\* CheckMaxObjectiveCuts .. CheckDualStag
SingleTreeStagnation(c) ==
    <<Call(NewTask("tCheckMaxNumberOfObjectiveCuts",
                   "TaskCheckMaxNumberOfPrimalReductionCuts", "FinalizeSolution", ""),
           "CheckMaxObjectiveCuts"),
      Call(tCheckPrimalStag, "CheckPrimalStag"),
      Call(tAddObjectiveCut, "AddObjectiveCut"),
      Call(NewTask("tCheckDualStag", "TaskCheckDualStagnation", "FinalizeSolution", ""),
           "CheckDualStag")>>

\* (mutant) the gap checks are not registered a second time
SingleTreeFixedIntegerOnce(c) ==
    When(c.fixedInteger /\ c.discrete,
         <<Call(tSelectPrimFixedNLPSolPool, "SelectPrimFixedNLPSolPool"),
           Call(tSelectPrimNLPCheck, "SelectPrimNLPCheck")>>)

\* SelectPrimFixedNLPSolPool, SelectPrimNLPCheck and the second gap checks
SingleTreeFixedInteger(c) ==
    When(c.fixedInteger /\ c.discrete,
         <<Call(tSelectPrimFixedNLPSolPool, "SelectPrimFixedNLPSolPool"),
           Call(tSelectPrimNLPCheck, "SelectPrimNLPCheck"),
           Call(tCheckAbsGap, "CheckAbsGap"),
           Call(tCheckRelGap, "CheckRelGap")>>)

\* InitIter2 .. the second AddHPs
SingleTreeCuts(c) ==
    <<Call(tInitializeIteration, "InitIter2")>>
    \o When(c.relaxation,
            <<Call(Plain("tExecuteRelaxStrategy2", "TaskExecuteRelaxationStrategy"),
                   "ExecRelaxStrategy")>>)
    \o (IF c.esh
        THEN <<Call(Plain("tUpdateInteriorPoint", "TaskUpdateInteriorPoint"),
                    "UpdateInteriorPoint"),
               Call(Plain("tSelectHPPts", "TaskSelectHyperplanePointsESH"),
                    "SelectHPPts")>>
        ELSE <<Call(Plain("tSelectHPPts", "TaskSelectHyperplanePointsECP"),
                    "SelectHPPts")>>)
    \o When(c.objNonlinear,
            <<Call(Plain("tSelectObjectiveHPPts",
                         "TaskSelectHyperplanePointsByObjectiveLinesearch"),
                   "SelectObjectiveHPPts")>>)
    \o When(c.integerCuts, <<Call(Plain("tAddICs", "TaskAddIntegerCuts"), "AddICs")>>)
    \o <<Call(tAddHPs, "AddHPs")>>

\* (mutant) Terminate is registered before FinalizeSolution
SingleTreeFinishTerminateEarly(c) ==
    <<Call(tGoto, "Goto"),
      Call(tTerminate, "Terminate"),
      Call(tFinalizeSolution, "FinalizeSolution")>>

\* Goto, FinalizeSolution, Terminate
SingleTreeFinish(c) ==
    <<Call(tGoto, "Goto"),
      Call(tFinalizeSolution, "FinalizeSolution"),
      Call(tTerminate, "Terminate")>>

\* the env->tasks->addTask calls of the constructor, in program order
SingleTreeCalls(c) ==
    SingleTreeSetup(c) \o SingleTreePrimal(c) \o SingleTreeRepair(c)
    \o SingleTreeChecks(c) \o SingleTreeStagnation(c) \o SingleTreeFixedInteger(c)
    \o SingleTreeCuts(c) \o SingleTreeFinish(c)

\* the tFinalizeSolution->addTask calls of the constructor, in program order
SingleTreeFinalize(c) ==
    <<tSelectPrimSolPool>>
    \o When(c.linesearch /\ c.nonlinear, <<tSelectPrimLinesearch>>)
    \o When(c.fixedInteger /\ c.discrete,
            <<tSelectPrimFixedNLPSolPool, tSelectPrimNLPCheck>>)
    \o When(~c.assumeConvex, <<tAddObjectiveCutFinal>>)

(***************************************************************************)
(* SolutionStrategyNLP::SolutionStrategyNLP                                *)
(***************************************************************************)
NLP_tFinalizeSolution == Plain("tFinalizeSolution", "TaskSequential")
NLP_tInitializeIteration == Plain("tInitializeIteration", "TaskInitializeIteration")
NLP_tAddHPs == Plain("tAddHPs", "TaskAddHyperplanes")
NLP_tSelectPrimSolPool ==
    Plain("tSelectPrimSolPool", "TaskSelectPrimalCandidatesFromSolutionPool")
NLP_tSelectPrimLinesearch ==
    Plain("tSelectPrimLinesearch", "TaskSelectPrimalCandidatesFromLinesearch")
NLP_tRepairInfeasibility ==
    NewTask("tRepairInfeasibility", "TaskRepairInfeasibleDualProblem",
            "SolveIter", "CheckAbsGap")
NLP_tCheckPrimalStag ==
    NewTask("tCheckPrimalStag", "TaskCheckPrimalStagnation",
            "AddObjectiveCut", "CheckDualStag")
NLP_tAddObjectiveCut ==
    NewTask("tAddObjectiveCut", "TaskAddPrimalReductionCut",
            "CheckDualStag", "CheckDualStag")
NLP_tGoto == NewTask("tGoto", "TaskGoto", "SolveIter", "")
NLP_tAddObjectiveCutFinal ==
    NewTask("tAddObjectiveCutFinal", "TaskAddPrimalReductionCut",
            "InitIter2", "Terminate")
NLP_tTerminate == Plain("tTerminate", "TaskTerminate")

\* InitMIPSolver .. SolveIter
NLPSetup(c) ==
    <<Call(Plain("tInitMIPSolver", "TaskInitializeDualSolver"), "InitMIPSolver")>>
    \o When(c.esh /\ c.nonlinear,
            <<Call(Plain("tFindIntPoint", "TaskFindInteriorPoint"), "FindIntPoint")>>)
    \o <<Call(Plain("tCreateDualProblem", "TaskCreateDualProblem"), "CreateDualProblem"),
         Call(Plain("tInitializeLinesearch", "TaskInitializeLinesearch"),
              "InitializeLinesearch"),
         Call(NLP_tInitializeIteration, "InitIter"),
         Call(NLP_tAddHPs, "AddHPs")>>
    \o When(c.presolve, <<Call(Plain("tPresolve", "TaskPresolve"), "Presolve")>>)
    \o <<Call(Plain("tSolveIteration", "TaskSolveIteration"), "SolveIter")>>

\* SelectPrimSolPool .. PrintIterReport
NLPPrimal(c) ==
    <<Call(NLP_tSelectPrimSolPool, "SelectPrimSolPool")>>
    \o When(c.linesearch /\ c.nonlinear,
            <<Call(NLP_tSelectPrimLinesearch, "SelectPrimLinesearch")>>)
    \o <<Call(Plain("tPrintIterReport", "TaskPrintIterationReport"), "PrintIterReport")>>

\* RepairInfeasibility
NLPRepair(c) ==
    When(~c.assumeConvex /\ ~c.problemConvex,
         <<Call(NLP_tRepairInfeasibility, "RepairInfeasibility")>>)

\* CheckAbsGap .. CheckConstrTol
NLPChecks(c) ==
    <<Call(NewTask("tCheckAbsGap", "TaskCheckAbsoluteGap", "FinalizeSolution", ""),
           "CheckAbsGap"),
      Call(NewTask("tCheckRelGap", "TaskCheckRelativeGap", "FinalizeSolution", ""),
           "CheckRelGap"),
      Call(NewTask("tCheckIterLim", "TaskCheckIterationLimit", "FinalizeSolution", ""),
           "CheckIterLim"),
      Call(NewTask("tCheckTimeLim", "TaskCheckTimeLimit", "FinalizeSolution", ""),
           "CheckTimeLim"),
      Call(NewTask("tCheckUserTerm", "TaskCheckUserTermination", "FinalizeSolution", ""),
           "CheckUserTermination"),
      Call(NewTask("tCheckIterError", "TaskCheckIterationError", "FinalizeSolution", ""),
           "CheckIterError"),
      Call(NewTask("tCheckConstrTol", "TaskCheckConstraintTolerance",
                   "FinalizeSolution", ""), "CheckConstrTol")>>

\* CheckPrimalStag .. CheckDualStag
NLPStagnation(c) ==
    <<Call(NLP_tCheckPrimalStag, "CheckPrimalStag"),
      Call(NLP_tAddObjectiveCut, "AddObjectiveCut"),
      Call(NewTask("tCheckDualStag", "TaskCheckDualStagnation", "FinalizeSolution", ""),
           "CheckDualStag")>>

\* (mutant) the second binding of tInitializeIteration repeats the name InitIter
NLPCutsInitIterTwice(c) ==
    <<Call(NLP_tInitializeIteration, "InitIter")>>
    \o (IF c.esh
        THEN <<Call(Plain("tUpdateInteriorPoint", "TaskUpdateInteriorPoint"),
                    "UpdateInteriorPoint"),
               Call(Plain("tSelectHPPts", "TaskSelectHyperplanePointsESH"),
                    "SelectHPPts")>>
        ELSE <<Call(Plain("tSelectHPPts", "TaskSelectHyperplanePointsECP"),
                    "SelectHPPts")>>)
    \o When(c.objNonlinear,
            <<Call(Plain("tSelectObjectiveHPPts",
                         "TaskSelectHyperplanePointsByObjectiveLinesearch"),
                   "SelectObjectiveHPPts")>>)
    \o <<Call(NLP_tAddHPs, "AddHPs")>>

\* InitIter2 .. the second AddHPs
NLPCuts(c) ==
    <<Call(NLP_tInitializeIteration, "InitIter2")>>
    \o (IF c.esh
        THEN <<Call(Plain("tUpdateInteriorPoint", "TaskUpdateInteriorPoint"),
                    "UpdateInteriorPoint"),
               Call(Plain("tSelectHPPts", "TaskSelectHyperplanePointsESH"),
                    "SelectHPPts")>>
        ELSE <<Call(Plain("tSelectHPPts", "TaskSelectHyperplanePointsECP"),
                    "SelectHPPts")>>)
    \o When(c.objNonlinear,
            <<Call(Plain("tSelectObjectiveHPPts",
                         "TaskSelectHyperplanePointsByObjectiveLinesearch"),
                   "SelectObjectiveHPPts")>>)
    \o <<Call(NLP_tAddHPs, "AddHPs")>>

\* (mutant) the jump back to SolveIter is registered after FinalizeSolution
NLPFinishGotoLate(c) ==
    <<Call(NLP_tFinalizeSolution, "FinalizeSolution"),
      Call(NLP_tGoto, "Goto"),
      Call(NLP_tTerminate, "Terminate")>>

\* Goto, FinalizeSolution, Terminate
NLPFinish(c) ==
    <<Call(NLP_tGoto, "Goto"),
      Call(NLP_tFinalizeSolution, "FinalizeSolution"),
      Call(NLP_tTerminate, "Terminate")>>

\* the env->tasks->addTask calls of the constructor, in program order
NLPCalls(c) ==
    NLPSetup(c) \o NLPPrimal(c) \o NLPRepair(c) \o NLPChecks(c)
    \o NLPStagnation(c) \o NLPCuts(c) \o NLPFinish(c)

\* the tFinalizeSolution->addTask calls of the constructor, in program order
NLPFinalize(c) ==
    <<NLP_tSelectPrimSolPool>>
    \o When(c.linesearch /\ c.nonlinear, <<NLP_tSelectPrimLinesearch>>)
    \o When(~c.assumeConvex /\ ~c.problemConvex, <<NLP_tAddObjectiveCutFinal>>)

(***************************************************************************)
(* Plain task graphs: tasks that never touch the cursor, registered under  *)
(* their own names in the order given by c.plain                           *)
(***************************************************************************)
PlainNames == {"A", "B", "C"}

RECURSIVE SeqsUpTo(_, _)
SeqsUpTo(S, n) ==
    IF n = 0 THEN {<<>>}
    ELSE LET shorter == SeqsUpTo(S, n - 1)
         IN  shorter \cup {Append(q, x) : q \in shorter, x \in S}

PlainConfigs ==
    {[Config("Plain", FALSE, FALSE, FALSE, FALSE, FALSE, FALSE, FALSE, FALSE,
             FALSE, FALSE, FALSE) EXCEPT !.plain = q] :
        q \in SeqsUpTo(PlainNames, MaxPlainLen)}

PlainCalls(c) == [i \in 1..Len(c.plain) |-> Call(Plain(c.plain[i], "TaskBase"), c.plain[i])]

Calls(c) ==
    IF c.strategy = "SingleTree" THEN SingleTreeCalls(c)
    ELSE IF c.strategy = "NLP" THEN NLPCalls(c)
    ELSE PlainCalls(c)

Finalize(c) ==
    IF c.strategy = "SingleTree" THEN SingleTreeFinalize(c)
    ELSE IF c.strategy = "NLP" THEN NLPFinalize(c)
    ELSE <<>>

(***************************************************************************)
(* State after construction                                                *)
(***************************************************************************)
TermsIdle ==
    /\ kind = "Linear"
    /\ terms = <<>>
    /\ convexity = "NotSet"
    /\ monotonicity = "NotSet"
    /\ lastQuery = "none"
    /\ lastValue = "NotSet"

\* no object of the algebraic model is under test
CallsIdle ==
    /\ self = "none"
    /\ args = "none"
    /\ call = "none"
    /\ ret = "none"

Init ==
    /\ cfg \in SingleTreeConfigs \cup NLPConfigs \cup PlainConfigs
    /\ taskIDMap = AddAll(<<>>, Calls(cfg))
    /\ m_tasks = Finalize(cfg)
    /\ nextTask = 1
    /\ status = "running"
    /\ result = FALSE
    /\ failed = FALSE
    /\ lastTask = ""
    /\ lastSlot = 0
    /\ lastOutcome = "none"
    /\ lastRedirect = ""
    /\ lastSubTasks = <<>>
    /\ executed = <<>>
    /\ sinceSolveIter = {}
    /\ TermsIdle
    /\ CallsIdle

(***************************************************************************)
(* solveProblem: while(env->tasks->getNextTask(nextTask)) nextTask->run(); *)
(* return (true);                                                          *)
(***************************************************************************)
\* (mutant) the loop gives up one slot early
LoopConditionOffByOne(map, cur) == cur >= 1 /\ cur < Len(map)

\* the loop condition
LoopCondition(map, cur) == getNextTask(map, cur)

\* the value solveProblem returns
ReturnValue(f) == TRUE

Outcome(b) == IF b THEN "true" ELSE "false"

\* the limit checks
LimitChecks == {"CheckIterLim", "CheckTimeLim"}

\* history of the main loop: SolveIter starts a new round, a limit check that
\* runs in a round is remembered
Sampled(since, name) ==
    IF name = "SolveIter" THEN {"SolveIter"}
    ELSE IF name \in LimitChecks /\ "SolveIter" \in since THEN since \cup {name}
    ELSE since

\* bookkeeping common to every loop iteration: the task in slot nextTask ran
\* with cursor effect r and predicate outcome o
Ran(r, o) ==
    /\ nextTask' = IF r.cur = 0 THEN nextTask + 1 ELSE r.cur
    /\ status' = IF r.cur = 0 THEN "exception" ELSE "running"
    /\ lastTask' = taskIDMap[nextTask].name
    /\ lastSlot' = nextTask
    /\ lastOutcome' = o
    /\ lastRedirect' = r.redirect
    /\ lastSubTasks' = r.ran
    /\ executed' = IF Len(executed) < MaxPlainLen
                   THEN Append(executed, taskIDMap[nextTask].name)
                   ELSE executed
    /\ sinceSolveIter' = Sampled(sinceSolveIter, taskIDMap[nextTask].name)
    /\ UNCHANGED <<cfg, taskIDMap, m_tasks, result>>
    /\ UNCHANGED <<termVars, callVars>>

Current == taskIDMap[nextTask].task

Looping == status = "running" /\ LoopCondition(taskIDMap, nextTask)

\* an iteration whose task neither redirects nor ends anything; the dual
\* solve of TaskSolveIteration records success or failure of the iteration
RunPlainTask ==
    /\ Looping
    /\ ~IsConditional(Current)
    /\ Current.type \notin {"TaskGoto", "TaskSequential", "TaskTerminate"}
    /\ IF Current.type = "TaskSolveIteration"
       THEN failed' \in BOOLEAN
       ELSE failed' = failed
    /\ Ran(NoRedirect(nextTask + 1), "none")

\* an iteration whose task is a check; TaskCheckIterationError tests the
\* failure recorded by the iteration, the other predicates are free
RunConditionalTask ==
    /\ Looping
    /\ IsConditional(Current)
    /\ \E b \in BOOLEAN :
        /\ Current.type = "TaskCheckIterationError" => b = failed
        /\ Ran(RunSimple(taskIDMap, Current, b, nextTask + 1), Outcome(b))
    /\ UNCHANGED failed

RunGotoTask ==
    /\ Looping
    /\ Current.type = "TaskGoto"
    /\ Ran(RunGoto(taskIDMap, Current, nextTask + 1), "none")
    /\ UNCHANGED failed

RunSequentialTask ==
    /\ Looping
    /\ Current.type = "TaskSequential"
    /\ \E outs \in [1..Len(m_tasks) -> BOOLEAN] :
        /\ \A i \in 1..Len(m_tasks) : ~IsConditional(m_tasks[i]) => ~outs[i]
        /\ Ran(RunSequential(taskIDMap, m_tasks, outs, 1, NoRedirect(nextTask + 1)),
               "none")
    /\ UNCHANGED failed

RunTerminateTask ==
    /\ Looping
    /\ Current.type = "TaskTerminate"
    /\ Ran(NoRedirect(nextTask + 1), "none")
    /\ UNCHANGED failed

\* the loop condition is false: solveProblem returns
Return ==
    /\ status = "running"
    /\ ~LoopCondition(taskIDMap, nextTask)
    /\ status' = "returned"
    /\ result' = ReturnValue(failed)
    /\ UNCHANGED <<cfg, taskIDMap, nextTask, m_tasks, failed, lastTask, lastSlot,
                   lastOutcome, lastRedirect, lastSubTasks, executed,
                   sinceSolveIter>>
    /\ UNCHANGED <<termVars, callVars>>

Next ==
    \/ RunPlainTask
    \/ RunConditionalTask
    \/ RunGotoTask
    \/ RunSequentialTask
    \/ RunTerminateTask
    \/ Return

Spec == Init /\ [][Next]_vars

TypeOK ==
    /\ nextTask \in 1..(Len(taskIDMap) + 1)
    /\ status \in {"running", "returned", "exception"}
    /\ status = "returned" => result \in BOOLEAN
    /\ failed \in BOOLEAN
    /\ lastSlot \in 0..Len(taskIDMap)
    /\ lastOutcome \in {"none", "true", "false"}
    /\ Len(executed) <= MaxPlainLen

(***************************************************************************)
(* Terms.h: terms.  Coefficients are small integers; a signomial power is  *)
(* kept as its double, power = twice / 2, so that 0.5 is representable.    *)
(***************************************************************************)
Variables == {"x", "y"}
\* Variable::index
Index(v) == IF v = "x" THEN 0 ELSE 1

Coefficients == {-1, 0, 1}

LinearTerm(coeff, var) == [coefficient |-> coeff, variable |-> var]
QuadraticTerm(coeff, variable1, variable2) ==
    [coefficient |-> coeff, firstVariable |-> variable1, secondVariable |-> variable2]
MonomialTerm(coeff, vs) == [coefficient |-> coeff, variables |-> vs]
SignomialElement(variable, twice) == [variable |-> variable, twice |-> twice]
SignomialTerm(coeff, elems) == [coefficient |-> coeff, elements |-> elems]

\* an empty std::shared_ptr<T>, as vector::resize appends
NullTerm == [null |-> TRUE]
IsNull(t) == "null" \in DOMAIN t

E_Convexity == {"Linear", "Convex", "Concave", "Nonconvex", "Unknown"}
E_Monotonicity == {"Nondecreasing", "Nonincreasing", "Constant", "Unknown"}

\* LinearTerm::getMonotonicity
LinearTerm_getMonotonicity(t) ==
    IF t.coefficient > 0 THEN "Nondecreasing"
    ELSE IF t.coefficient < 0 THEN "Nonincreasing"
    ELSE "Constant"

\* QuadraticTerm::getMonotonicity
QuadraticTerm_getMonotonicity(t) ==
    IF t.coefficient > 0 THEN "Nondecreasing"
    ELSE IF t.coefficient < 0 THEN "Nonincreasing"
    ELSE "Constant"

\* MonomialTerm::getMonotonicity
MonomialTerm_getMonotonicity(t) == "Unknown"

\* (mutant) a power of 0 is counted as positive
NumberPositivePowersFromZero(elems) == Cardinality({i \in 1..Len(elems) : elems[i].twice >= 0})

\* the loop of SignomialTerm::getConvexity / getMonotonicity over the elements
NumberPositivePowers(elems) == Cardinality({i \in 1..Len(elems) : elems[i].twice > 0})
RECURSIVE SumTwice(_)
SumTwice(elems) ==
    IF elems = <<>> THEN 0 ELSE Head(elems).twice + SumTwice(Tail(elems))

\* SignomialTerm::getMonotonicity
SignomialTerm_getMonotonicity(t) ==
    LET numberPositivePowers == NumberPositivePowers(t.elements)
        sumPowers == SumTwice(t.elements)
        size == Len(t.elements)
    IN  IF t.coefficient = 0 THEN "Constant"
        ELSE IF t.coefficient > 0 THEN
            IF size = 1 /\ sumPowers = 0 THEN "Constant"
            ELSE IF size = 1 /\ sumPowers > 0 THEN "Nondecreasing"
            ELSE IF size = 1 /\ sumPowers < 0 THEN "Nonincreasing"
            ELSE IF numberPositivePowers = 0 THEN "Nonincreasing"
            ELSE IF numberPositivePowers = size THEN "Nondecreasing"
            ELSE "Unknown"
        ELSE
            IF size = 1 /\ sumPowers = 0 THEN "Constant"
            ELSE IF size = 1 /\ sumPowers > 0 THEN "Nonincreasing"
            ELSE IF size = 1 /\ sumPowers < 0 THEN "Nondecreasing"
            ELSE IF numberPositivePowers = 0 THEN "Nondecreasing"
            ELSE IF numberPositivePowers = size THEN "Nonincreasing"
            ELSE "Unknown"

\* TERM->getMonotonicity(), dispatched on the term class
Term_getMonotonicity(k, t) ==
    IF k = "Linear" THEN LinearTerm_getMonotonicity(t)
    ELSE IF k = "Quadratic" THEN QuadraticTerm_getMonotonicity(t)
    ELSE IF k = "Monomial" THEN MonomialTerm_getMonotonicity(t)
    ELSE SignomialTerm_getMonotonicity(t)

(***************************************************************************)
(* Terms.h: term collections                                               *)
(***************************************************************************)
Kinds == {"Linear", "Quadratic", "Monomial", "Signomial"}

HasNull(ts) == \E i \in 1..Len(ts) : IsNull(ts[i])

\* Terms<T>::updateMonotonicity: the value it stores
updateMonotonicity(k, ts) ==
    LET m(i) == Term_getMonotonicity(k, ts[i])
        areAllNonincreasing ==
            \A i \in 1..Len(ts) : m(i) \in {"Nonincreasing", "Constant"}
        areAllNondecreasing ==
            \A i \in 1..Len(ts) : m(i) \in {"Nondecreasing", "Constant"}
    IN  IF areAllNonincreasing THEN "Nonincreasing"
        ELSE IF areAllNondecreasing THEN "Nondecreasing"
        ELSE "Unknown"

RECURSIVE SumCoefficients(_, _)
\* sum of the coefficients of the terms with index in I
SumCoefficients(ts, I) ==
    IF I = {} THEN 0
    ELSE LET i == CHOOSE j \in I : TRUE
         IN  ts[i].coefficient + SumCoefficients(ts, I \ {i})

\* QuadraticTerms::updateConvexity: the values it can store.  ok tells
\* whether the eigenvalue decomposition reports Eigen::Success.  A triplet
\* whose row or column is not below the matrix dimension is outside the
\* matrix that setFromTriplets fills: the behaviour is undefined.
QuadraticTerms_updateConvexity(ts, ok) ==
    IF Len(ts) = 0 THEN {"Linear"}
    ELSE
    LET squares == {i \in 1..Len(ts) : ts[i].firstVariable = ts[i].secondVariable}
        bilinears == (1..Len(ts)) \ squares
        variableMap == {ts[i].firstVariable : i \in 1..Len(ts)}
                       \cup {ts[i].secondVariable : i \in 1..Len(ts)}
        allSquares == bilinears = {}
        allPositive == \A i \in squares : ts[i].coefficient >= 0
        allNegative == \A i \in squares : ts[i].coefficient <= 0
        numberOfVariables == Cardinality(variableMap)
        outside == \E v \in variableMap : Index(v) >= numberOfVariables
        \* twice the matrix: diagonal 2 * coefficient, off-diagonal coefficient
        diag(v) == 2 * SumCoefficients(ts, {i \in squares : ts[i].firstVariable = v})
        lower == SumCoefficients(ts, bilinears)
        trace == diag("x") + diag("y")
        det == diag("x") * diag("y") - lower * lower
        allEigenPositive ==
            IF numberOfVariables = 1 THEN diag("x") > 0 ELSE trace > 0 /\ det > 0
        allEigenNegative ==
            IF numberOfVariables = 1 THEN diag("x") < 0 ELSE trace < 0 /\ det > 0
    IN  IF allSquares /\ allPositive THEN {"Convex"}
        ELSE IF allSquares /\ allNegative THEN {"Concave"}
        ELSE IF outside THEN E_Convexity
        ELSE IF ~ok THEN {"Unknown"}
        ELSE IF allEigenPositive THEN {"Convex"}
        ELSE IF allEigenNegative THEN {"Concave"}
        ELSE {"Nonconvex"}

\* updateConvexity of the four collections: the values it can store
updateConvexity(k, ts, ok) ==
    IF k = "Linear" THEN {"Linear"}
    ELSE IF k = "Quadratic" THEN QuadraticTerms_updateConvexity(ts, ok)
    ELSE IF k = "Monomial" THEN {"Nonconvex"}
    ELSE {"Unknown"}

\* does the recomputation dereference the elements
ConvexityReadsTerms(k, ts) == k = "Quadratic" /\ Len(ts) > 0

(***************************************************************************)
(* The terms a collection is filled with                                   *)
(***************************************************************************)
TermUniverse(k) ==
    IF k = "Linear" THEN
        {LinearTerm(c, v) : c \in Coefficients, v \in Variables}
    ELSE IF k = "Quadratic" THEN
        {QuadraticTerm(c, v, w) : c \in Coefficients, v \in Variables, w \in Variables}
    ELSE IF k = "Monomial" THEN
        {MonomialTerm(c, vs) : c \in Coefficients,
                               vs \in {<<"x">>, <<"x", "y">>, <<"x", "x">>}}
    ELSE
        {SignomialTerm(c, es) : c \in Coefficients,
            es \in {<<SignomialElement("x", 2)>>,
                    <<SignomialElement("x", -2)>>,
                    <<SignomialElement("x", 1), SignomialElement("y", 4)>>,
                    <<SignomialElement("x", 2), SignomialElement("y", -2)>>}}

(***************************************************************************)
(* Operations on a collection                                              *)
(***************************************************************************)
EngineIdle ==
    /\ cfg = Config("Plain", FALSE, FALSE, FALSE, FALSE, FALSE, FALSE, FALSE,
                    FALSE, FALSE, FALSE, FALSE)
    /\ taskIDMap = <<>>
    /\ m_tasks = <<>>
    /\ nextTask = 1
    /\ status = "returned"
    /\ result = TRUE
    /\ failed = FALSE
    /\ lastTask = ""
    /\ lastSlot = 0
    /\ lastOutcome = "none"
    /\ lastRedirect = ""
    /\ lastSubTasks = <<>>
    /\ executed = <<>>
    /\ sinceSolveIter = {}

\* Terms(){}: an empty collection, nothing cached
InitTerms ==
    /\ EngineIdle
    /\ CallsIdle
    /\ kind \in Kinds
    /\ terms = <<>>
    /\ convexity = "NotSet"
    /\ monotonicity = "NotSet"
    /\ lastQuery = "none"
    /\ lastValue = "NotSet"

Alive == lastQuery # "crash"

\* the caches after add: LinearTerms::add resets monotonicity only
Invalidated ==
    /\ monotonicity' = "NotSet"
    /\ convexity' = IF kind = "Linear" THEN convexity ELSE "NotSet"

Mutated ==
    /\ lastQuery' = "none"
    /\ lastValue' = "NotSet"
    /\ UNCHANGED kind
    /\ UNCHANGED <<engineVars, callVars>>

\* add(TermPtr term)
add ==
    /\ Alive
    /\ Len(terms) < MaxTerms
    /\ \E t \in TermUniverse(kind) : terms' = Append(terms, t)
    /\ Invalidated
    /\ Mutated

\* add(Terms terms): the caches are reset only if something was appended
addTerms ==
    /\ Alive
    /\ \E ts \in SeqsUpTo(TermUniverse(kind), MaxTerms - Len(terms)) :
        /\ terms' = terms \o ts
        /\ IF Len(ts) > 0 THEN Invalidated ELSE UNCHANGED <<convexity, monotonicity>>
    /\ Mutated

\* std::vector::push_back, made public by the using-declaration
push_back ==
    /\ Alive
    /\ Len(terms) < MaxTerms
    /\ \E t \in TermUniverse(kind) : terms' = Append(terms, t)
    /\ UNCHANGED <<convexity, monotonicity>>
    /\ Mutated

\* std::vector::erase(position)
erase ==
    /\ Alive
    /\ \E i \in 1..Len(terms) :
        terms' = SubSeq(terms, 1, i - 1) \o SubSeq(terms, i + 1, Len(terms))
    /\ UNCHANGED <<convexity, monotonicity>>
    /\ Mutated

\* std::vector::clear
clear ==
    /\ Alive
    /\ terms' = <<>>
    /\ UNCHANGED <<convexity, monotonicity>>
    /\ Mutated

\* std::vector::resize(n): cuts the vector, or fills it up with empty pointers
resize ==
    /\ Alive
    /\ \E n \in 0..MaxTerms :
        terms' = IF n <= Len(terms) THEN SubSeq(terms, 1, n)
                 ELSE terms \o [i \in 1..(n - Len(terms)) |-> NullTerm]
    /\ UNCHANGED <<convexity, monotonicity>>
    /\ Mutated

\* the process dies on the dereference of an empty pointer
Crash ==
    /\ lastQuery' = "crash"
    /\ lastValue' = "NotSet"
    /\ UNCHANGED <<kind, terms, convexity, monotonicity>>
    /\ UNCHANGED <<engineVars, callVars>>

\* Terms<T>::getConvexity
getConvexity ==
    /\ Alive
    /\ IF convexity # "NotSet"
       THEN /\ lastValue' = convexity
            /\ lastQuery' = "convexity"
            /\ UNCHANGED <<kind, terms, convexity, monotonicity>>
            /\ UNCHANGED <<engineVars, callVars>>
       ELSE IF ConvexityReadsTerms(kind, terms) /\ HasNull(terms)
       THEN Crash
       ELSE \E ok \in BOOLEAN : \E c \in updateConvexity(kind, terms, ok) :
            /\ convexity' = c
            /\ lastValue' = c
            /\ lastQuery' = "convexity"
            /\ UNCHANGED <<kind, terms, monotonicity>>
            /\ UNCHANGED <<engineVars, callVars>>

\* Terms<T>::getMonotonicity
getMonotonicity ==
    /\ Alive
    /\ IF monotonicity # "NotSet"
       THEN /\ lastValue' = monotonicity
            /\ lastQuery' = "monotonicity"
            /\ UNCHANGED <<kind, terms, convexity, monotonicity>>
            /\ UNCHANGED <<engineVars, callVars>>
       ELSE IF HasNull(terms)
       THEN Crash
       ELSE /\ monotonicity' = updateMonotonicity(kind, terms)
            /\ lastValue' = monotonicity'
            /\ lastQuery' = "monotonicity"
            /\ UNCHANGED <<kind, terms, convexity>>
            /\ UNCHANGED <<engineVars, callVars>>

NextTerms ==
    \/ add
    \/ addTerms
    \/ push_back
    \/ erase
    \/ clear
    \/ resize
    \/ getConvexity
    \/ getMonotonicity

SpecTerms == InitTerms /\ [][NextTerms]_vars

(***************************************************************************)
(* Properties of the task-graph engine                                     *)
(***************************************************************************)
Names(map) == [i \in 1..Len(map) |-> map[i].name]
IsStrategy == cfg.strategy \in Strategies
\* taskID of the slot under the cursor ("" at end())
AtCursor == IF getNextTask(taskIDMap, nextTask) THEN taskIDMap[nextTask].name ELSE ""

\* C1: in a graph of plain tasks (no Conditional, no Goto) the run loop
\* executes the registered tasks in registration order, each exactly once:
\* what has been executed is always the registered names up to the cursor,
\* and when solveProblem has returned it is the whole registration order.
C1_PlainGraphRunsInOrder ==
    cfg.strategy = "Plain" =>
        /\ executed = SubSeq(Names(taskIDMap), 1, nextTask - 1)
        /\ status = "returned" => executed = Names(taskIDMap)

C1_Witness ==
    /\ cfg.strategy = "Plain"
    /\ cfg.plain = <<"A", "B", "C">>
    /\ status = "returned"
    /\ executed = <<"A", "B", "C">>

\* C2: a two-target Conditional whose predicate is false redirects to its
\* false-target: the task run next is the one bound to that name, and for
\* CheckPrimalStag it is CheckDualStag and not the AddObjectiveCut slot that
\* follows CheckPrimalStag in registration order.
C2_FalseBranchRedirects ==
    [][(/\ IsStrategy
        /\ lastOutcome = "false"
        /\ lastSlot >= 1
        /\ taskIDMap[lastSlot].task.type \in TwoTargetTypes)
       => /\ lastTask' = taskIDMap[lastSlot].task.ifFalse
          /\ lastTask = "CheckPrimalStag"
                => /\ lastTask' = "CheckDualStag"
                   /\ taskIDMap[lastSlot + 1].name = "AddObjectiveCut"
                   /\ lastSlot' = lastSlot + 2]_vars

C2_Witness ==
    /\ IsStrategy
    /\ lastTask = "CheckPrimalStag"
    /\ lastOutcome = "false"
    /\ AtCursor = "CheckDualStag"
    /\ taskIDMap[lastSlot + 1].name = "AddObjectiveCut"

\* C3: in both strategy graphs the task run after Goto is always SolveIter,
\* whatever the solver state; the slot registered after Goto
\* (FinalizeSolution) is not entered by that transition.
C3_GotoJumpsToSolveIter ==
    [][(IsStrategy /\ lastTask = "Goto")
       => /\ lastTask' = "SolveIter"
          /\ lastSlot' # lastSlot + 1]_vars

C3_Witness ==
    /\ IsStrategy
    /\ lastTask = "Goto"
    /\ failed
    /\ AtCursor = "SolveIter"

\* C4: solveProblem returns only with the cursor past the last slot; in a
\* strategy graph the cursor is past the last slot exactly when Terminate was
\* the task run last, so nothing runs after Terminate and no other task ends
\* the run; the run never ends by an exception.
C4_StopsOnlyAtTerminate ==
    /\ status # "exception"
    /\ status = "returned" => nextTask = Len(taskIDMap) + 1
    /\ IsStrategy => (nextTask = Len(taskIDMap) + 1 <=> lastTask = "Terminate")

C4_Witness ==
    /\ cfg.strategy = "SingleTree"
    /\ status = "returned"
    /\ lastTask = "Terminate"

\* C5: the value solveProblem returns tells failure from success: it is
\* false when the run ended with a recorded failure and true otherwise.
C5_ReturnTellsFailure ==
    status = "returned" => (result <=> ~failed)

\* C6: every addTask call has a slot of its own: the number of slots is the
\* number of addTask calls, and in the SingleTree graph with FixedInteger.Use
\* on a discrete problem CheckAbsGap, CheckRelGap and AddHPs are bound to two
\* slots each (to the same task object), the task after SelectPrimNLPCheck
\* being the second CheckAbsGap slot and not the first.
C6_EveryCallHasItsSlot ==
    /\ Len(taskIDMap) = Len(Calls(cfg))
    /\ (cfg.strategy = "SingleTree" /\ cfg.fixedInteger /\ cfg.discrete) =>
        /\ \A n \in {"CheckAbsGap", "CheckRelGap", "AddHPs"} :
            /\ Cardinality(SlotsOf(taskIDMap, n)) = 2
            /\ \A i, j \in SlotsOf(taskIDMap, n) :
                   taskIDMap[i].task.id = taskIDMap[j].task.id
        /\ lastTask = "SelectPrimNLPCheck" =>
            /\ AtCursor = "CheckAbsGap"
            /\ nextTask = lastSlot + 1
            /\ nextTask # setNextTask(taskIDMap, "CheckAbsGap")

C6_Witness ==
    /\ cfg.strategy = "SingleTree"
    /\ lastTask = "SelectPrimNLPCheck"
    /\ AtCursor = "CheckAbsGap"
    /\ nextTask > setNextTask(taskIDMap, "CheckAbsGap")

HasFinalCut == \E i \in 1..Len(m_tasks) : m_tasks[i].type = "TaskAddPrimalReductionCut"

C8_AssumeConvexHasNoReductionCuts ==
    (IsStrategy /\ cfg.assumeConvex) =>
        /\ \A i \in 1..Len(taskIDMap) :
            /\ taskIDMap[i].name \notin
                   {"RepairInfeasibility", "AddObjectiveCut", "CheckMaxObjectiveCuts"}
            /\ taskIDMap[i].task.type \notin
                   {"TaskRepairInfeasibleDualProblem", "TaskAddPrimalReductionCut",
                    "TaskCheckMaxNumberOfPrimalReductionCuts"}
        /\ ~HasFinalCut

(***************************************************************************)
(* Properties of the term collections                                      *)
(***************************************************************************)
\* what a recomputation over the current contents gives; nothing when it
\* would dereference an empty pointer
FreshConvexity(k, ts) ==
    IF ConvexityReadsTerms(k, ts) /\ HasNull(ts) THEN {}
    ELSE UNION {updateConvexity(k, ts, ok) : ok \in BOOLEAN}

FreshMonotonicity(k, ts) ==
    IF HasNull(ts) THEN {} ELSE {updateMonotonicity(k, ts)}

\* C9: whatever mutations (add, push_back, erase, clear, resize) and queries
\* came before, the value a getter returns is the value a fresh recomputation
\* over the current contents gives: the cache is never stale (so two queries
\* without a mutation between them agree as well).
C9_CacheNeverStale ==
    /\ lastQuery = "convexity" => lastValue \in FreshConvexity(kind, terms)
    /\ lastQuery = "monotonicity" => lastValue \in FreshMonotonicity(kind, terms)

\* the sign rule over all coefficients
SignRule(ts) ==
    LET coefficients == {ts[i].coefficient : i \in 1..Len(ts)}
    IN  IF \A c \in coefficients : c = 0 THEN "Constant"
        ELSE IF \A c \in coefficients : c >= 0 THEN "Nondecreasing"
        ELSE IF \A c \in coefficients : c <= 0 THEN "Nonincreasing"
        ELSE "Unknown"

\* C10: a LinearTerms collection reports convexity Linear, and whenever
\* getMonotonicity returns the value computed from the current contents, that
\* value follows the sign rule: Nondecreasing when all coefficients are >= 0
\* and one is > 0, Nonincreasing when all are <= 0 and one is < 0, Constant
\* when all are 0 (the empty collection included), Unknown when both signs
\* occur.
C10_LinearSignRule ==
    kind = "Linear" =>
        /\ lastQuery = "convexity" => lastValue = "Linear"
        /\ (lastQuery = "monotonicity" /\ lastValue \in FreshMonotonicity(kind, terms))
               => lastValue = SignRule(terms)

\* every term is a square term with a coefficient of the given sign
SameSignSquares(ts, sign) ==
    /\ Len(ts) > 0
    /\ ~HasNull(ts)
    /\ \A i \in 1..Len(ts) :
        /\ ts[i].firstVariable = ts[i].secondVariable
        /\ ts[i].coefficient * sign > 0

\* C11: for a non-empty QuadraticTerms collection of square terms whose
\* coefficients are all > 0 getConvexity returns Convex, and Concave when
\* they are all < 0; the value is decided without the eigenvalue
\* decomposition, so it is the same whether the decomposition would succeed
\* or not.
C11_SameSignSquares ==
    (kind = "Quadratic" /\ lastQuery = "convexity") =>
        /\ SameSignSquares(terms, 1) =>
            /\ lastValue = "Convex"
            /\ \A ok \in BOOLEAN : QuadraticTerms_updateConvexity(terms, ok) = {"Convex"}
        /\ SameSignSquares(terms, -1) =>
            /\ lastValue = "Concave"
            /\ \A ok \in BOOLEAN : QuadraticTerms_updateConvexity(terms, ok) = {"Concave"}

(***************************************************************************)
(* Terms.h: SignomialTerm::getConvexity, applied to single terms           *)
(***************************************************************************)
\* (mutant) the branch of a negative coefficient is a copy of the positive one
SignomialTerm_getConvexityUnmirrored(t) ==
    LET numberPositivePowers == NumberPositivePowers(t.elements)
        sumPowers == SumTwice(t.elements)
        size == Len(t.elements)
    IN  IF size = 1 /\ sumPowers = 2 THEN "Linear"
        ELSE IF t.coefficient # 0 THEN
            IF numberPositivePowers = 1 /\ sumPowers > 2 THEN "Convex"
            ELSE IF size = 1 /\ sumPowers > 0 /\ sumPowers < 2 THEN "Concave"
            ELSE IF numberPositivePowers = 0 THEN "Convex"
            ELSE "Nonconvex"
        ELSE "Nonconvex"

\* (mutant) the single-element test comes after the tests on the coefficient
SignomialTerm_getConvexityLinearLast(t) ==
    LET numberPositivePowers == NumberPositivePowers(t.elements)
        sumPowers == SumTwice(t.elements)
        size == Len(t.elements)
    IN  IF t.coefficient > 0 /\ numberPositivePowers = 1 /\ sumPowers > 2 THEN "Convex"
        ELSE IF t.coefficient > 0 /\ size = 1 /\ sumPowers > 0 /\ sumPowers < 2 THEN "Concave"
        ELSE IF t.coefficient > 0 /\ numberPositivePowers = 0 THEN "Convex"
        ELSE IF t.coefficient > 0 THEN "Nonconvex"
        ELSE IF t.coefficient < 0 /\ numberPositivePowers = 1 /\ sumPowers > 2 THEN "Concave"
        ELSE IF t.coefficient < 0 /\ size = 1 /\ sumPowers > 0 /\ sumPowers < 2 THEN "Convex"
        ELSE IF t.coefficient < 0 /\ numberPositivePowers = 0 THEN "Concave"
        ELSE IF size = 1 /\ sumPowers = 2 THEN "Linear"
        ELSE "Nonconvex"

\* SignomialTerm::getConvexity (sumPowers is twice the sum of the powers)
SignomialTerm_getConvexity(t) ==
    LET numberPositivePowers == NumberPositivePowers(t.elements)
        sumPowers == SumTwice(t.elements)
        size == Len(t.elements)
    IN  IF size = 1 /\ sumPowers = 2 THEN "Linear"
        ELSE IF t.coefficient > 0 THEN
            IF numberPositivePowers = 1 /\ sumPowers > 2 THEN "Convex"
            ELSE IF size = 1 /\ sumPowers > 0 /\ sumPowers < 2 THEN "Concave"
            ELSE IF numberPositivePowers = 0 THEN "Convex"
            ELSE "Nonconvex"
        ELSE IF t.coefficient < 0 THEN
            IF numberPositivePowers = 1 /\ sumPowers > 2 THEN "Concave"
            ELSE IF size = 1 /\ sumPowers > 0 /\ sumPowers < 2 THEN "Convex"
            ELSE IF numberPositivePowers = 0 THEN "Concave"
            ELSE "Nonconvex"
        ELSE "Nonconvex"

\* the powers -1, -0.5, 0, 0.5, 1 and 2, doubled
TwicePowers == {-2, -1, 0, 1, 2, 4}
SignomialElements == {SignomialElement(v, p) : v \in Variables, p \in TwicePowers}
SignomialTermUniverse ==
    {SignomialTerm(c, es) : c \in Coefficients, es \in SeqsUpTo(SignomialElements, MaxElements)}

\* a signomial term as SignomialTerm(coeff, elems) constructs it
InitSignomialTerm ==
    /\ EngineIdle
    /\ TermsIdle
    /\ self \in SignomialTermUniverse
    /\ args = <<>>
    /\ call = "none"
    /\ ret = "none"

\* a const member function was called on the object
Called(name, value) ==
    /\ call' = name
    /\ ret' = value
    /\ UNCHANGED <<self, args>>
    /\ UNCHANGED <<engineVars, termVars>>

SignomialTermGetConvexity ==
    Called("getConvexity", SignomialTerm_getConvexity(self))

SignomialTermGetMonotonicity ==
    Called("getMonotonicity", SignomialTerm_getMonotonicity(self))

NextSignomialTerm ==
    \/ SignomialTermGetConvexity
    \/ SignomialTermGetMonotonicity

SpecSignomialTerm == InitSignomialTerm /\ [][NextSignomialTerm]_vars

\* the term is one variable to the power 1
SingleElementPowerOne(t) == Len(t.elements) = 1 /\ t.elements[1].twice = 2

\* C12: getConvexity of a signomial term with exactly one element whose
\* power is exactly 1 returns Linear, whether the coefficient is positive,
\* negative or zero.
C12_SinglePowerOneIsLinear ==
    (call = "getConvexity" /\ SingleElementPowerOne(self)) => ret = "Linear"

C12_Witness ==
    /\ call = "getConvexity"
    /\ SingleElementPowerOne(self)
    /\ self.coefficient = 0
    /\ ret = "Linear"

\* the three special cases of a positive coefficient, as the claim words them
OnePositiveSumAboveOne(t) ==
    /\ Cardinality({i \in 1..Len(t.elements) : t.elements[i].twice > 0}) = 1
    /\ SumTwice(t.elements) > 2
SingleElementSumBelowOne(t) ==
    /\ Len(t.elements) = 1
    /\ SumTwice(t.elements) > 0
    /\ SumTwice(t.elements) < 2
NoPositivePower(t) == \A i \in 1..Len(t.elements) : t.elements[i].twice <= 0

\* C13: for a signomial term with a positive coefficient that is not a single
\* element of power 1, getConvexity returns Convex when exactly one element
\* has a positive power and the powers sum to more than 1, Concave when the
\* only element has a power between 0 and 1, Convex when no element has a
\* positive power, and Nonconvex otherwise; no two of the three cases hold
\* for the same term, so the order of the tests does not matter.
C13_PositiveCoefficientRules ==
    (call = "getConvexity" /\ self.coefficient > 0 /\ ~SingleElementPowerOne(self)) =>
        /\ OnePositiveSumAboveOne(self) => ret = "Convex"
        /\ SingleElementSumBelowOne(self) => ret = "Concave"
        /\ NoPositivePower(self) => ret = "Convex"
        /\ (/\ ~OnePositiveSumAboveOne(self)
            /\ ~SingleElementSumBelowOne(self)
            /\ ~NoPositivePower(self)) => ret = "Nonconvex"
        /\ ~(OnePositiveSumAboveOne(self) /\ SingleElementSumBelowOne(self))
        /\ ~(OnePositiveSumAboveOne(self) /\ NoPositivePower(self))
        /\ ~(SingleElementSumBelowOne(self) /\ NoPositivePower(self))

C13_Witness ==
    /\ call = "getConvexity"
    /\ self.coefficient > 0
    /\ Len(self.elements) = 2
    /\ OnePositiveSumAboveOne(self)
    /\ ret = "Convex"

(***************************************************************************)
(* Terms.h: calculateGradient of the four term collections.  Values are    *)
(* integers: the points have non-zero integer coordinates and the powers   *)
(* of the signomial elements are 0, 1, 2 or 3 here.                        *)
(***************************************************************************)
GradientCoefficients == {-1, 0, 2, 3}
PointValues == {-1, 1, 2}
Points == [Variables -> PointValues]

\* pow(x, n) for an integer n >= 0
RECURSIVE Pow(_, _)
Pow(x, n) == IF n = 0 THEN 1 ELSE x * Pow(x, n - 1)

\* Variable::calculate(point)
Variable_calculate(v, point) == point[v]

\* SignomialElement::calculate(point)
SignomialElement_calculate(e, point) == Pow(Variable_calculate(e.variable, point), e.twice \div 2)

\* SparseVariableVector gradient;
EmptyGradient == [v \in {} |-> 0]

\* gradient.insert(std::make_pair(variable, value)): an existing entry is kept
insert(gradient, pair) ==
    IF pair[1] \in DOMAIN gradient THEN gradient
    ELSE [v \in DOMAIN gradient \cup {pair[1]} |->
             IF v = pair[1] THEN pair[2] ELSE gradient[v]]

\* insert, and element.first->second += value when the entry existed
insertOrAdd(gradient, pair) ==
    IF pair[1] \in DOMAIN gradient
    THEN [gradient EXCEPT ![pair[1]] = @ + pair[2]]
    ELSE insert(gradient, pair)

\* the product over the positions of a sequence of factors
RECURSIVE Product(_)
Product(factors) == IF factors = <<>> THEN 1 ELSE Head(factors) * Product(Tail(factors))

\* the (variable, value) pairs the loop body hands to the map for one term
LinearTerm_pairs(T, point) ==
    IF T.coefficient = 0 THEN <<>> ELSE << <<T.variable, T.coefficient>> >>

QuadraticTerm_pairs(T, point) ==
    IF T.coefficient = 0 THEN <<>>
    ELSE IF T.firstVariable = T.secondVariable
    THEN << <<T.firstVariable, 2 * T.coefficient * point[T.firstVariable]>> >>
    ELSE << <<T.firstVariable, T.coefficient * point[T.secondVariable]>>,
            <<T.secondVariable, T.coefficient * point[T.firstVariable]>> >>

\* V1 == V2 compares the variables, so every occurrence of V1 is left out
MonomialTerm_pairs(T, point) ==
    IF T.coefficient = 0 THEN <<>>
    ELSE [i \in 1..Len(T.variables) |->
            <<T.variables[i],
              Product([j \in 1..Len(T.variables) |->
                  IF T.variables[i] = T.variables[j] THEN 1
                  ELSE Variable_calculate(T.variables[j], point)])>>]

\* power * pow(x, power - 1.0); for power 0 that is 0 * pow(x, -1) = 0 at x # 0
SignomialElement_derivative(e, point) ==
    IF e.twice = 2 THEN 1
    ELSE IF e.twice = 0 THEN 0
    ELSE (e.twice \div 2) * Pow(Variable_calculate(e.variable, point), (e.twice \div 2) - 1)

\* E1 == E2 compares the element pointers: the positions in the list
SignomialTerm_pairs(T, point) ==
    IF T.coefficient = 0 THEN <<>>
    ELSE [i \in 1..Len(T.elements) |->
            <<T.elements[i].variable,
              Product([j \in 1..Len(T.elements) |->
                  IF i = j THEN SignomialElement_derivative(T.elements[j], point)
                  ELSE SignomialElement_calculate(T.elements[j], point)])>>]

Term_pairs(k, T, point) ==
    IF k = "Linear" THEN LinearTerm_pairs(T, point)
    ELSE IF k = "Quadratic" THEN QuadraticTerm_pairs(T, point)
    ELSE IF k = "Monomial" THEN MonomialTerm_pairs(T, point)
    ELSE SignomialTerm_pairs(T, point)

\* all pairs of for(auto& T : (*this)), in order
RECURSIVE Pairs(_, _, _)
Pairs(k, ts, point) ==
    IF ts = <<>> THEN <<>>
    ELSE Term_pairs(k, Head(ts), point) \o Pairs(k, Tail(ts), point)

\* what the loop does with a pair: QuadraticTerms adds to an existing entry;
\* LinearTerms adds to the bool of the pair insert returned, which leaves the
\* map as insert left it; MonomialTerms and SignomialTerms only insert
Store(k, gradient, pair) ==
    IF k = "Quadratic" THEN insertOrAdd(gradient, pair) ELSE insert(gradient, pair)

RECURSIVE StoreAll(_, _, _)
StoreAll(k, gradient, pairs) ==
    IF pairs = <<>> THEN gradient
    ELSE StoreAll(k, Store(k, gradient, Head(pairs)), Tail(pairs))

\* LinearTerms/QuadraticTerms/MonomialTerms/SignomialTerms::calculateGradient
calculateGradient(k, ts, point) == StoreAll(k, EmptyGradient, Pairs(k, ts, point))

\* the terms the collections are built from
GradientTermUniverse(k) ==
    IF k = "Linear" THEN
        {LinearTerm(c, v) : c \in GradientCoefficients, v \in Variables}
    ELSE IF k = "Quadratic" THEN
        {QuadraticTerm(c, v, w) : c \in GradientCoefficients, v \in Variables, w \in Variables}
    ELSE IF k = "Monomial" THEN
        {MonomialTerm(c, vs) : c \in GradientCoefficients,
                               vs \in {<<"x">>, <<"x", "y">>, <<"x", "x">>}}
    ELSE
        {SignomialTerm(c, es) : c \in GradientCoefficients,
            es \in {<<SignomialElement("x", 4)>>,
                    <<SignomialElement("y", 0)>>,
                    <<SignomialElement("x", 2), SignomialElement("y", 4)>>,
                    <<SignomialElement("x", 4), SignomialElement("x", 2)>>,
                    <<SignomialElement("x", 6), SignomialElement("y", 2)>>}}

\* a collection filled by add, and the point the gradient is asked at
InitGradient ==
    /\ EngineIdle
    /\ TermsIdle
    /\ \E k \in Kinds : \E ts \in SeqsUpTo(GradientTermUniverse(k), MaxTerms) :
        self = [kind |-> k, terms |-> ts]
    /\ args \in Points
    /\ call = "none"
    /\ ret = "none"

TermsCalculateGradient ==
    Called("calculateGradient", calculateGradient(self.kind, self.terms, args))

NextGradient == TermsCalculateGradient

SpecGradient == InitGradient /\ [][NextGradient]_vars

\* the sum of the values of the pairs of one variable
RECURSIVE Total(_, _)
Total(pairs, v) ==
    IF pairs = <<>> THEN 0
    ELSE (IF Head(pairs)[1] = v THEN Head(pairs)[2] ELSE 0) + Total(Tail(pairs), v)

\* C14: calculateGradient accumulates duplicate entries by addition: the map
\* it returns holds, for every variable that received a contribution, the
\* sum of all contributions to that variable, whether they come from several
\* terms or from one term; the linear terms 2x and 3x give {x: 5}.
C14_GradientAccumulates ==
    call = "calculateGradient" =>
        LET pairs == Pairs(self.kind, self.terms, args)
        IN  /\ DOMAIN ret = {pairs[i][1] : i \in 1..Len(pairs)}
            /\ \A v \in DOMAIN ret : ret[v] = Total(pairs, v)

(***************************************************************************)
(* Constraints.h: the constraint classes and NumericConstraintValue.       *)
(* index and name of a constraint are left out.                            *)
(***************************************************************************)
\* an empty NonlinearExpressionPtr
NullExpression == [null |-> TRUE]
ExpressionConstant(constant) == [node |-> "ExpressionConstant", constant |-> constant]
ExpressionVariable(variable) == [node |-> "ExpressionVariable", variable |-> variable]

\* struct ConstraintProperties: the default member initializers
ConstraintProperties ==
    [isReformulated |-> FALSE, hasLinearTerms |-> FALSE, hasQuadraticTerms |-> FALSE,
     hasMonomialTerms |-> FALSE, hasSignomialTerms |-> FALSE,
     hasNonlinearExpression |-> FALSE, hasNonalgebraicPart |-> FALSE]

\* the members of the most derived class, default-initialised
Constraint(class) ==
    [class |-> class, valueLHS |-> 0, valueRHS |-> 0,
     linearTerms |-> <<>>, quadraticTerms |-> <<>>, monomialTerms |-> <<>>,
     signomialTerms |-> <<>>, nonlinearExpression |-> NullExpression,
     properties |-> ConstraintProperties]

\* LinearConstraint(index, name, LHS, RHS)
LinearConstraint_LHS_RHS(LHS, RHS) ==
    [Constraint("Linear") EXCEPT !.valueLHS = LHS, !.valueRHS = RHS]

\* LinearConstraint(index, name, linTerms, LHS, RHS)
LinearConstraint_linTerms(linTerms, LHS, RHS) ==
    [Constraint("Linear") EXCEPT
        !.linearTerms = linTerms, !.valueLHS = LHS, !.valueRHS = RHS,
        !.properties.hasLinearTerms = Len(linTerms) > 0]

\* QuadraticConstraint(index, name, LHS, RHS)
QuadraticConstraint_LHS_RHS(LHS, RHS) ==
    [Constraint("Quadratic") EXCEPT !.valueLHS = LHS, !.valueRHS = RHS]

\* QuadraticConstraint(index, name, quadTerms, LHS, RHS)
QuadraticConstraint_quadTerms(quadTerms, LHS, RHS) ==
    [Constraint("Quadratic") EXCEPT
        !.quadraticTerms = quadTerms, !.valueLHS = LHS, !.valueRHS = RHS,
        !.properties.hasQuadraticTerms = Len(quadTerms) > 0]

\* (mutant) the quadratic flag is taken from the linear terms
QuadraticConstraint_linTerms_quadTermsMixedUp(linTerms, quadTerms, LHS, RHS) ==
    [Constraint("Quadratic") EXCEPT
        !.linearTerms = linTerms, !.quadraticTerms = quadTerms,
        !.valueLHS = LHS, !.valueRHS = RHS,
        !.properties.hasLinearTerms = Len(linTerms) > 0,
        !.properties.hasQuadraticTerms = Len(linTerms) > 0]

\* QuadraticConstraint(index, name, linTerms, quadTerms, LHS, RHS)
QuadraticConstraint_linTerms_quadTerms(linTerms, quadTerms, LHS, RHS) ==
    [Constraint("Quadratic") EXCEPT
        !.linearTerms = linTerms, !.quadraticTerms = quadTerms,
        !.valueLHS = LHS, !.valueRHS = RHS,
        !.properties.hasLinearTerms = Len(linTerms) > 0,
        !.properties.hasQuadraticTerms = Len(quadTerms) > 0]

\* NonlinearConstraint(index, name, LHS, RHS)
NonlinearConstraint_LHS_RHS(LHS, RHS) ==
    [Constraint("Nonlinear") EXCEPT !.valueLHS = LHS, !.valueRHS = RHS]

\* NonlinearConstraint(index, name, expression, LHS, RHS)
NonlinearConstraint_expression(expression, LHS, RHS) ==
    [Constraint("Nonlinear") EXCEPT
        !.nonlinearExpression = expression, !.valueLHS = LHS, !.valueRHS = RHS,
        !.properties.hasNonlinearExpression = TRUE]

\* NonlinearConstraint(index, name, quadTerms, expression, LHS, RHS)
NonlinearConstraint_quadTerms_expression(quadTerms, expression, LHS, RHS) ==
    [Constraint("Nonlinear") EXCEPT
        !.quadraticTerms = quadTerms, !.nonlinearExpression = expression,
        !.valueLHS = LHS, !.valueRHS = RHS,
        !.properties.hasQuadraticTerms = Len(quadTerms) > 0,
        !.properties.hasNonlinearExpression = TRUE]

\* NonlinearConstraint(index, name, linTerms, expression, LHS, RHS)
NonlinearConstraint_linTerms_expression(linTerms, expression, LHS, RHS) ==
    [Constraint("Nonlinear") EXCEPT
        !.linearTerms = linTerms, !.nonlinearExpression = expression,
        !.valueLHS = LHS, !.valueRHS = RHS,
        !.properties.hasLinearTerms = Len(linTerms) > 0,
        !.properties.hasNonlinearExpression = TRUE]

\* NonlinearConstraint(index, name, linTerms, quadTerms, expression, LHS, RHS)
NonlinearConstraint_linTerms_quadTerms_expression(linTerms, quadTerms, expression, LHS, RHS) ==
    [Constraint("Nonlinear") EXCEPT
        !.linearTerms = linTerms, !.quadraticTerms = quadTerms,
        !.nonlinearExpression = expression, !.valueLHS = LHS, !.valueRHS = RHS,
        !.properties.hasLinearTerms = Len(linTerms) > 0,
        !.properties.hasQuadraticTerms = Len(quadTerms) > 0,
        !.properties.hasNonlinearExpression = TRUE]

Max(a, b) == IF a >= b THEN a ELSE b

\* (mutant) error is the worst-side value itself
NumericConstraintValueUnclipped(L, U, f) ==
    [functionValue |-> f,
     isFulfilledLHS |-> L <= f,
     normalizedLHSValue |-> L - f,
     isFulfilledRHS |-> f <= U,
     normalizedRHSValue |-> f - U,
     isFulfilled |-> L <= f /\ f <= U,
     error |-> Max(L - f, f - U),
     normalizedValue |-> Max(L - f, f - U)]

\* struct NumericConstraintValue for L <= f(x) <= U, each member as its
\* declaration defines it
NumericConstraintValue(L, U, f) ==
    [functionValue |-> f,
     isFulfilledLHS |-> L <= f,
     normalizedLHSValue |-> L - f,
     isFulfilledRHS |-> f <= U,
     normalizedRHSValue |-> f - U,
     isFulfilled |-> L <= f /\ f <= U,
     error |-> Max(0, Max(L - f, f - U)),
     normalizedValue |-> Max(L - f, f - U)]

\* NumericConstraint::calculateNumericValue(point), f the function value at
\* the point
calculateNumericValue(constraint, f) ==
    NumericConstraintValue(constraint.valueLHS, constraint.valueRHS, f)

\* (mutant) the errors are compared
NumericConstraintValue_greaterByError(a, b) == a.error > b.error

\* NumericConstraintValue::operator>
NumericConstraintValue_greater(a, b) == a.normalizedValue > b.normalizedValue

\* what the constraints are constructed from
LinTerms == {<<>>, <<LinearTerm(1, "x")>>, <<LinearTerm(1, "x"), LinearTerm(0, "y")>>}
QuadTerms == {<<>>, <<QuadraticTerm(1, "x", "x")>>}
Expressions == {ExpressionVariable("x"), ExpressionConstant(1)}
Sides == {0, 3, 10}
\* values of calculateFunctionValue(point)
FunctionValues == {-1, 3, 4, 5, 12}

InitConstraint ==
    /\ EngineIdle
    /\ TermsIdle
    /\ CallsIdle

Constructed(class, object) ==
    /\ call = "none"
    /\ self' = object
    /\ call' = class
    /\ args' = <<>>
    /\ UNCHANGED ret
    /\ UNCHANGED <<engineVars, termVars>>

NewLinearConstraint ==
    \E LHS \in Sides, RHS \in Sides, linTerms \in LinTerms :
        \/ Constructed("LinearConstraint", LinearConstraint_LHS_RHS(LHS, RHS))
        \/ Constructed("LinearConstraint", LinearConstraint_linTerms(linTerms, LHS, RHS))

NewQuadraticConstraint ==
    \E LHS \in Sides, RHS \in Sides, linTerms \in LinTerms, quadTerms \in QuadTerms :
        \/ Constructed("QuadraticConstraint", QuadraticConstraint_LHS_RHS(LHS, RHS))
        \/ Constructed("QuadraticConstraint",
                       QuadraticConstraint_quadTerms(quadTerms, LHS, RHS))
        \/ Constructed("QuadraticConstraint",
                       QuadraticConstraint_linTerms_quadTerms(linTerms, quadTerms, LHS, RHS))

NewNonlinearConstraint ==
    \E LHS \in Sides, RHS \in Sides, linTerms \in LinTerms, quadTerms \in QuadTerms,
       expression \in Expressions :
        \/ Constructed("NonlinearConstraint", NonlinearConstraint_LHS_RHS(LHS, RHS))
        \/ Constructed("NonlinearConstraint",
                       NonlinearConstraint_expression(expression, LHS, RHS))
        \/ Constructed("NonlinearConstraint",
                       NonlinearConstraint_quadTerms_expression(quadTerms, expression, LHS, RHS))
        \/ Constructed("NonlinearConstraint",
                       NonlinearConstraint_linTerms_expression(linTerms, expression, LHS, RHS))
        \/ Constructed("NonlinearConstraint",
                       NonlinearConstraint_linTerms_quadTerms_expression(
                           linTerms, quadTerms, expression, LHS, RHS))

\* constraint->calculateNumericValue(point)
ConstraintCalculateNumericValue ==
    /\ call # "none"
    /\ \E f \in FunctionValues :
        /\ args' = <<f>>
        /\ ret' = calculateNumericValue(self, f)
    /\ call' = "calculateNumericValue"
    /\ UNCHANGED self
    /\ UNCHANGED <<engineVars, termVars>>

\* a > b for the values of the constraint at two points
ConstraintValuesGreater ==
    /\ call # "none"
    /\ \E fa \in FunctionValues, fb \in FunctionValues :
        LET a == calculateNumericValue(self, fa)
            b == calculateNumericValue(self, fb)
        IN  /\ args' = <<a, b>>
            /\ ret' = NumericConstraintValue_greater(a, b)
    /\ call' = "operator>"
    /\ UNCHANGED self
    /\ UNCHANGED <<engineVars, termVars>>

NextConstraint ==
    \/ NewLinearConstraint
    \/ NewQuadraticConstraint
    \/ NewNonlinearConstraint
    \/ ConstraintCalculateNumericValue
    \/ ConstraintValuesGreater

SpecConstraint == InitConstraint /\ [][NextConstraint]_vars

C16_NumericValue ==
    call = "calculateNumericValue" =>
        LET L == self.valueLHS
            U == self.valueRHS
            f == args[1]
        IN  /\ ret.normalizedLHSValue = L - f
            /\ ret.normalizedRHSValue = f - U
            /\ ret.isFulfilledLHS <=> L <= f
            /\ ret.isFulfilledRHS <=> f <= U
            /\ ret.isFulfilled <=> (ret.isFulfilledLHS /\ ret.isFulfilledRHS)
            /\ ret.error = Max(0, Max(L - f, f - U))
            /\ ret.error = 0 <=> ret.isFulfilled
            /\ (L = 3 /\ U = 10 /\ f = 12) =>
                /\ ret.isFulfilledLHS
                /\ ~ret.isFulfilledRHS
                /\ ret.normalizedRHSValue = 2
                /\ ret.error = 2

C16_Witness ==
    /\ call = "calculateNumericValue"
    /\ self.valueLHS = 3
    /\ self.valueRHS = 10
    /\ args = <<12>>
    /\ ret.error = 2
    /\ ~ret.isFulfilled

\* C17 (as claimed): a > b holds exactly when a.error > b.error.
C17_GreaterIffLargerError ==
    call = "operator>" => (ret <=> args[1].error > args[2].error)

\* C17 (amended): a > b holds exactly when a.normalizedValue is greater than
\* b.normalizedValue, the worst-side value max(L - f, f - U) that is not
\* clipped at 0; a larger error always gives a > b, and of two fulfilled
\* values the one nearer to its bound is the greater.
C17_GreaterIffLargerNormalizedValue ==
    call = "operator>" =>
        /\ ret <=> args[1].normalizedValue > args[2].normalizedValue
        /\ args[1].error > args[2].error => ret
        /\ ret => args[1].error >= args[2].error

C17_Witness ==
    /\ call = "operator>"
    /\ args[1].isFulfilled
    /\ args[2].isFulfilled
    /\ args[1].error = args[2].error
    /\ ret

(***************************************************************************)
(* NonlinearExpressions.h: expression trees, their evaluation at integer   *)
(* points and intervals, and their printing                                *)
(***************************************************************************)
UnaryClasses ==
    {"ExpressionNegate", "ExpressionInvert", "ExpressionSqrt", "ExpressionLog",
     "ExpressionExp", "ExpressionSin", "ExpressionCos", "ExpressionTan",
     "ExpressionArcSin", "ExpressionArcCos", "ExpressionArcTan"}

ExpressionUnary(class, childExpression) == [node |-> class, child |-> childExpression]
ExpressionBinary(class, childExpression1, childExpression2) ==
    [node |-> class, firstChild |-> childExpression1, secondChild |-> childExpression2]
ExpressionGeneral(class, childExpressions) == [node |-> class, children |-> childExpressions]

ExpressionMinus(childExpression1, childExpression2) ==
    ExpressionBinary("ExpressionMinus", childExpression1, childExpression2)
ExpressionTimes(childExpressions) == ExpressionGeneral("ExpressionTimes", childExpressions)

Interval(l, u) == [l |-> l, u |-> u]
MinOf(S) == CHOOSE m \in S : \A n \in S : m <= n
MaxOf(S) == CHOOSE m \in S : \A n \in S : m >= n
\* Interval: operator-, operator+, operator*
IntervalMinus(a, b) == Interval(a.l - b.u, a.u - b.l)
IntervalPlus(a, b) == Interval(a.l + b.l, a.u + b.u)
IntervalTimes(a, b) ==
    LET corners == {a.l * b.l, a.l * b.u, a.u * b.l, a.u * b.u}
    IN  Interval(MinOf(corners), MaxOf(corners))

RECURSIVE Expression_calculate(_, _)
RECURSIVE ExpressionTimes_calculate(_, _, _, _, _)
RECURSIVE ExpressionTimes_calculateAll(_, _, _, _, _)
RECURSIVE ExpressionSum_calculate(_, _)

\* (mutant) the loop has no early return
ExpressionTimes_calculateAll(children, point, i, value, visited) ==
    IF i > Len(children) THEN [value |-> value, visited |-> visited]
    ELSE LET tmpValue == Expression_calculate(children[i], point)
         IN  ExpressionTimes_calculateAll(children, point, i + 1, value * tmpValue,
                                          Append(visited, i))

\* ExpressionTimes::calculate(point): the loop from child i on; visited lists
\* the children whose calculate was called
ExpressionTimes_calculate(children, point, i, value, visited) ==
    IF i > Len(children) THEN [value |-> value, visited |-> visited]
    ELSE LET tmpValue == Expression_calculate(children[i], point)
         IN  IF tmpValue = 0 THEN [value |-> 0, visited |-> Append(visited, i)]
             ELSE ExpressionTimes_calculate(children, point, i + 1, value * tmpValue,
                                            Append(visited, i))

ExpressionSum_calculate(children, point) ==
    IF children = <<>> THEN 0
    ELSE Expression_calculate(Head(children), point)
         + ExpressionSum_calculate(Tail(children), point)

\* calculate(const VectorDouble& point) of the classes with integer values
Expression_calculate(e, point) ==
    CASE e.node = "ExpressionConstant" -> e.constant
      [] e.node = "ExpressionVariable" -> Variable_calculate(e.variable, point)
      [] e.node = "ExpressionNegate" -> 0 - Expression_calculate(e.child, point)
      [] e.node = "ExpressionPlus" ->
            Expression_calculate(e.firstChild, point) + Expression_calculate(e.secondChild, point)
      [] e.node = "ExpressionMinus" ->
            Expression_calculate(e.firstChild, point) - Expression_calculate(e.secondChild, point)
      [] e.node = "ExpressionTimes" ->
            ExpressionTimes_calculate(e.children, point, 1, 1, <<>>).value
      [] e.node = "ExpressionSum" -> ExpressionSum_calculate(e.children, point)

RECURSIVE Expression_calculateInterval(_, _)
RECURSIVE ExpressionTimes_calculateInterval(_, _, _, _, _)

\* ExpressionTimes::calculate(intervalVector)
ExpressionTimes_calculateInterval(children, intervalVector, i, tmpInterval, visited) ==
    IF i > Len(children) THEN [value |-> tmpInterval, visited |-> visited]
    ELSE ExpressionTimes_calculateInterval(children, intervalVector, i + 1,
            IntervalTimes(tmpInterval, Expression_calculateInterval(children[i], intervalVector)),
            Append(visited, i))

\* calculate(const IntervalVector& intervalVector)
Expression_calculateInterval(e, intervalVector) ==
    CASE e.node = "ExpressionConstant" -> Interval(e.constant, e.constant)
      [] e.node = "ExpressionVariable" -> intervalVector[e.variable]
      [] e.node = "ExpressionMinus" ->
            IntervalMinus(Expression_calculateInterval(e.firstChild, intervalVector),
                          Expression_calculateInterval(e.secondChild, intervalVector))
      [] e.node = "ExpressionPlus" ->
            IntervalPlus(Expression_calculateInterval(e.firstChild, intervalVector),
                         Expression_calculateInterval(e.secondChild, intervalVector))
      [] e.node = "ExpressionTimes" ->
            ExpressionTimes_calculateInterval(e.children, intervalVector, 1,
                                              Interval(1, 1), <<>>).value

\* children.expressions.at(0) on an empty list throws
OutOfRange == "std::out_of_range"

\* what print writes before the child of a unary node
UnaryOpening(class) ==
    CASE class = "ExpressionNegate" -> "(-"
      [] class = "ExpressionInvert" -> "1/("
      [] class = "ExpressionSqrt" -> "sqrt("
      [] class = "ExpressionLog" -> "log("
      [] class = "ExpressionExp" -> "exp("
      [] class = "ExpressionSin" -> "sin("
      [] class = "ExpressionCos" -> "cos("
      [] class = "ExpressionTan" -> "tan("
      [] class = "ExpressionArcSin" -> "sin("
      [] class = "ExpressionArcCos" -> "arccos("
      [] class = "ExpressionArcTan" -> "arctan("

RECURSIVE Expression_print(_)
RECURSIVE PrintRest(_, _)

\* stream << sign << children.expressions.at(i) for the children given
PrintRest(children, sign) ==
    IF children = <<>> THEN ""
    ELSE sign \o Expression_print(Head(children)) \o PrintRest(Tail(children), sign)

\* print(std::ostream&): the characters written to the stream
Expression_print(e) ==
    CASE e.node = "ExpressionConstant" -> ToString(e.constant)
      [] e.node = "ExpressionVariable" -> e.variable
      [] e.node \in UnaryClasses ->
            UnaryOpening(e.node) \o Expression_print(e.child) \o ")"
      [] e.node = "ExpressionPlus" ->
            Expression_print(e.firstChild) \o "+" \o Expression_print(e.secondChild)
      [] e.node = "ExpressionMinus" ->
            Expression_print(e.firstChild) \o "-" \o Expression_print(e.secondChild)
      [] e.node = "ExpressionPower" ->
            "(" \o Expression_print(e.firstChild) \o ")^("
                \o Expression_print(e.secondChild) \o ")"
      [] e.node \in {"ExpressionTimes", "ExpressionSum"} ->
            IF Len(e.children) = 0 THEN OutOfRange
            ELSE IF Len(e.children) = 1 THEN Expression_print(e.children[1])
            ELSE "(" \o Expression_print(e.children[1])
                     \o PrintRest(Tail(e.children),
                                  IF e.node = "ExpressionTimes" THEN "*" ELSE "+")
                     \o ")"

\* the trees that are evaluated: products of up to MaxChildren children
TimesChildren ==
    {ExpressionConstant(0), ExpressionConstant(2), ExpressionVariable("x"),
     ExpressionVariable("y"),
     ExpressionMinus(ExpressionVariable("x"), ExpressionVariable("y"))}
TimesUniverse == {ExpressionTimes(cs) : cs \in SeqsUpTo(TimesChildren, MaxChildren)}

\* the trees that are printed: variables, sums and differences of them nested
\* once, and unary nodes over those
PrintLeaves == {ExpressionVariable(v) : v \in Variables}
PrintSums ==
    {ExpressionBinary(c, a, b) : c \in {"ExpressionPlus", "ExpressionMinus"},
                                 a \in PrintLeaves, b \in PrintLeaves}
PrintUniverse ==
    PrintLeaves
    \cup {ExpressionBinary(c, a, b) : c \in {"ExpressionPlus", "ExpressionMinus"},
                                      a \in PrintLeaves \cup PrintSums,
                                      b \in PrintLeaves \cup PrintSums}
    \cup {ExpressionUnary(c, a) : c \in UnaryClasses, a \in PrintLeaves \cup PrintSums}

ExpressionPointValues == {-1, 0, 2}
ExpressionPoints == [Variables -> ExpressionPointValues]
IntervalVectors == [Variables -> {Interval(0, 0), Interval(-1, 2), Interval(1, 2)}]

\* a tree as the constructors build it
InitExpression ==
    /\ EngineIdle
    /\ TermsIdle
    /\ self \in TimesUniverse \cup PrintUniverse
    /\ args = <<>>
    /\ call = "none"
    /\ ret = "none"

CalledWith(name, arguments, value) ==
    /\ call' = name
    /\ args' = arguments
    /\ ret' = value
    /\ UNCHANGED self
    /\ UNCHANGED <<engineVars, termVars>>

\* expression->calculate(point) on a product
ExpressionCalculate ==
    /\ self \in TimesUniverse
    /\ \E point \in ExpressionPoints :
        CalledWith("calculate", point,
                   ExpressionTimes_calculate(self.children, point, 1, 1, <<>>))

\* expression->calculate(intervalVector) on a product
ExpressionCalculateInterval ==
    /\ self \in TimesUniverse
    /\ \E intervalVector \in IntervalVectors :
        CalledWith("calculateInterval", intervalVector,
                   ExpressionTimes_calculateInterval(self.children, intervalVector, 1,
                                                     Interval(1, 1), <<>>))

\* stream << expression
ExpressionPrint == CalledWith("print", <<>>, Expression_print(self))

NextExpression ==
    \/ ExpressionCalculate
    \/ ExpressionCalculateInterval
    \/ ExpressionPrint

SpecExpression == InitExpression /\ [][NextExpression]_vars

\* the products of one bound of every child interval
RECURSIVE CornerProducts(_)
CornerProducts(intervals) ==
    IF intervals = <<>> THEN {1}
    ELSE {b * p : b \in {Head(intervals).l, Head(intervals).u},
                  p \in CornerProducts(Tail(intervals))}

\* C18: the point evaluation of ExpressionTimes visits the children in list
\* order; it returns 0 at the first child whose value is 0 and evaluates no
\* later child; otherwise it visits all children and returns the product of
\* their values (1 for no children).  The interval evaluation visits all
\* children, also after a child with interval [0, 0], and returns the product
\* of all their intervals.
C18_TimesShortCircuitsAtPointsOnly ==
    LET n == Len(self.children)
        values == [i \in 1..n |-> Expression_calculate(self.children[i], args)]
        zeros == {i \in 1..n : values[i] = 0}
        intervals == [i \in 1..n |-> Expression_calculateInterval(self.children[i], args)]
    IN  /\ call = "calculate" =>
            IF zeros = {} THEN /\ ret.visited = [i \in 1..n |-> i]
                               /\ ret.value = Product(values)
            ELSE /\ ret.visited = [i \in 1..MinOf(zeros) |-> i]
                 /\ ret.value = 0
        /\ call = "calculateInterval" =>
            /\ ret.visited = [i \in 1..n |-> i]
            /\ ret.value = Interval(MinOf(CornerProducts(intervals)),
                                    MaxOf(CornerProducts(intervals)))

C18_Witness ==
    /\ call = "calculate"
    /\ Len(self.children) = 3
    /\ ret.visited = <<1, 2>>
    /\ ret.value = 0
    /\ Expression_calculate(self.children[3], args) # 0

\* C19: printing is fully parenthesized: no two different trees print to the
\* same string; in particular a-(b-c) and (a-b)-c print differently, and so
\* do sin and arcsin of the same child.
C19_PrintTellsTreesApart ==
    (call = "print" /\ ret # OutOfRange) =>
        \A other \in TimesUniverse \cup PrintUniverse :
            Expression_print(other) = ret => other = self

(***************************************************************************)
(* Properties of the main loop of the SingleTree graph                     *)
(***************************************************************************)
\* C20: in the SingleTree graph, when SolveIter is executed and has been
\* executed before, both CheckIterLim and CheckTimeLim were executed since
\* its previous execution.
C20_LimitsSampledBetweenSolves ==
    [][(/\ cfg.strategy = "SingleTree"
        /\ Looping
        /\ AtCursor = "SolveIter"
        /\ lastSlot' = nextTask
        /\ "SolveIter" \in sinceSolveIter)
       => LimitChecks \subseteq sinceSolveIter]_vars

(***************************************************************************)
(* Properties of the built strategy graphs                                 *)
(***************************************************************************)
\* the classes that sample the three cooperative cancellation signals
CancellationChecks ==
    {"TaskCheckTimeLimit", "TaskCheckIterationLimit", "TaskCheckUserTermination"}

\* C21: every strategy graph (SingleTree and NLP, in every configuration)
\* registers a check task for each of the three cancellation signals, time
\* limit, iteration limit and user termination, each with redirect target
\* FinalizeSolution.
C21_CancellationChecksRegistered ==
    IsStrategy =>
        \A type \in CancellationChecks :
            \E i \in 1..Len(taskIDMap) :
                /\ taskIDMap[i].task.type = type
                /\ taskIDMap[i].task.ifTrue = "FinalizeSolution"

\* where solveProblem is: the cursor and whether the loop has been left;
\* every step of the loop changes it
position == <<nextTask, status>>

\* the run loop is the only thread of control and never waits: as long as
\* getNextTask hands out a task, the loop runs it
SpecLive == Init /\ [][Next]_vars /\ WF_position(Next)

\* the iteration-limit check runs and its predicate is false
IterLimEvaluatesFalse ==
    /\ Looping
    /\ Current.type = "TaskCheckIterationLimit"
    /\ lastSlot' = nextTask
    /\ lastOutcome' = "false"

\* Terminate has run and solveProblem has returned
Stopped == status = "returned" /\ lastTask = "Terminate"

Mirrored(c) ==
    IF c = "Convex" THEN "Concave" ELSE IF c = "Concave" THEN "Convex" ELSE c

\* the same elements with the coefficient negated
Negated(t) == SignomialTerm(-t.coefficient, t.elements)

\* none of the tests of getConvexity matches the elements
NoSpecialCase(t) ==
    /\ ~SingleElementPowerOne(t)
    /\ ~OnePositiveSumAboveOne(t)
    /\ ~SingleElementSumBelowOne(t)
    /\ ~NoPositivePower(t)

\* C23: for every element list and every coefficient c # 0, getConvexity of
\* the term with coefficient -c is getConvexity of the term with coefficient
\* c with Convex and Concave exchanged, Linear and Nonconvex unchanged; a
\* term with a negative coefficient that matches no special case yields
\* Nonconvex, like its counterpart with the positive coefficient.
C23_MirroredUnderNegation ==
    (call = "getConvexity" /\ self.coefficient # 0) =>
        /\ SignomialTerm_getConvexity(Negated(self)) = Mirrored(ret)
        /\ (self.coefficient < 0 /\ NoSpecialCase(self)) =>
            /\ ret = "Nonconvex"
            /\ SignomialTerm_getConvexity(Negated(self)) = "Nonconvex"

C23_Witness ==
    /\ call = "getConvexity"
    /\ self.coefficient < 0
    /\ Len(self.elements) = 2
    /\ NoSpecialCase(self)
    /\ ret = "Nonconvex"

(***************************************************************************)
(* Gradients of single monomial and signomial terms                        *)
(***************************************************************************)
\* no variable occurs in two elements of the signomial term
DistinctVariables(T) ==
    \A i, j \in 1..Len(T.elements) :
        T.elements[i].variable = T.elements[j].variable => i = j

\* d/dx of x^p by the power rule, for an integer power p >= 0
PowerRule(x, p) == IF p = 0 THEN 0 ELSE p * Pow(x, p - 1)

\* the partial derivative of c * prod(x_i ^ p_i) with respect to the variable
\* of element k, the variables being distinct
SignomialPartialDerivative(T, k, point) ==
    T.coefficient
    * Product([i \in 1..Len(T.elements) |->
          IF i = k THEN PowerRule(point[T.elements[i].variable], T.elements[i].twice \div 2)
          ELSE Pow(point[T.elements[i].variable], T.elements[i].twice \div 2)])

\* the collection holds one term with a coefficient other than 0
SingleTerm(k) ==
    /\ self.kind = k
    /\ Len(self.terms) = 1
    /\ self.terms[1].coefficient # 0

\* C24: for a signomial term c * prod(x_i ^ p_i) with c # 0 and distinct
\* variables, the entry of the gradient SignomialTerms::calculateGradient
\* returns for the variable x_k is the partial derivative of the term:
\* c * p_k * x_k^(p_k - 1) * the product of x_i^p_i over the other elements.
C24_SignomialGradientIsDerivative ==
    (/\ call = "calculateGradient"
     /\ SingleTerm("Signomial")
     /\ DistinctVariables(self.terms[1])) =>
        \A k \in 1..Len(self.terms[1].elements) :
            /\ self.terms[1].elements[k].variable \in DOMAIN ret
            /\ ret[self.terms[1].elements[k].variable]
                   = SignomialPartialDerivative(self.terms[1], k, args)

\* the coefficient times the values of all occurrences but the one at k
MonomialPartialDerivative(T, k, point) ==
    T.coefficient
    * Product([j \in 1..Len(T.variables) |->
          IF j = k THEN 1 ELSE point[T.variables[j]]])

\* C25: for a monomial term c * prod(x_i) with c # 0, the entry of the
\* gradient MonomialTerms::calculateGradient returns for a participating
\* variable x_k is the coefficient times the product of the values of every
\* other variable occurrence of the term, also when x_k occurs more than once.
C25_MonomialGradientIsDerivative ==
    (call = "calculateGradient" /\ SingleTerm("Monomial")) =>
        \A k \in 1..Len(self.terms[1].variables) :
            /\ self.terms[1].variables[k] \in DOMAIN ret
            /\ ret[self.terms[1].variables[k]]
                   = MonomialPartialDerivative(self.terms[1], k, args)

(***************************************************************************)
(* QuadraticTerms::updateConvexity: the coefficient matrix                 *)
(***************************************************************************)
\* the collection is decided by the shortcut for squares of one sign
CoveredByShortcut(ts) ==
    /\ \A i \in 1..Len(ts) : ts[i].firstVariable = ts[i].secondVariable
    /\ \/ \A i \in 1..Len(ts) : ts[i].coefficient >= 0
       \/ \A i \in 1..Len(ts) : ts[i].coefficient <= 0

\* the variables occurring in the collection
VariablesOf(ts) ==
    {ts[i].firstVariable : i \in 1..Len(ts)} \cup {ts[i].secondVariable : i \in 1..Len(ts)}

\* twice the symmetric coefficient matrix over the occurring variables: the
\* entry of v and w sums twice the square coefficients on the diagonal and
\* the bilinear coefficients off it
TwiceMatrix(ts, v, w) ==
    IF v = w
    THEN 2 * SumCoefficients(ts, {i \in 1..Len(ts) :
                 ts[i].firstVariable = v /\ ts[i].secondVariable = v})
    ELSE SumCoefficients(ts, {i \in 1..Len(ts) :
                 {ts[i].firstVariable, ts[i].secondVariable} = {v, w}})

\* the signs (-1, 0, 1) of the eigenvalues of that matrix, which has one or
\* two rows: by the trace and the determinant when it has two
EigenvalueSigns(ts) ==
    LET V == VariablesOf(ts)
        Sign(n) == IF n > 0 THEN 1 ELSE IF n < 0 THEN -1 ELSE 0
    IN  IF Cardinality(V) = 1
        THEN {Sign(TwiceMatrix(ts, CHOOSE v \in V : TRUE, CHOOSE v \in V : TRUE))}
        ELSE LET trace == TwiceMatrix(ts, "x", "x") + TwiceMatrix(ts, "y", "y")
                 det == TwiceMatrix(ts, "x", "x") * TwiceMatrix(ts, "y", "y")
                        - TwiceMatrix(ts, "x", "y") * TwiceMatrix(ts, "x", "y")
             IN  (IF trace > 0 \/ det < 0 THEN {1} ELSE {})
                 \cup (IF trace < 0 \/ det < 0 THEN {-1} ELSE {})
                 \cup (IF det = 0 THEN {0} ELSE {})

\* C26: for a QuadraticTerms collection the shortcut for same-signed squares
\* does not cover, the convexity is decided by the eigenvalues of the
\* symmetric coefficient matrix: Convex exactly when all eigenvalues are
\* > 0, Concave exactly when all are < 0, Nonconvex exactly when eigenvalues
\* of both signs occur, Unknown exactly when the decomposition fails.
C26_EigenvalueClassification ==
    (/\ kind = "Quadratic"
     /\ lastQuery = "convexity"
     /\ Len(terms) > 0
     /\ ~HasNull(terms)
     /\ ~CoveredByShortcut(terms)) =>
        \A ok \in BOOLEAN : \A c \in QuadraticTerms_updateConvexity(terms, ok) :
            /\ c = "Unknown" <=> ~ok
            /\ c = "Convex" <=> (ok /\ EigenvalueSigns(terms) = {1})
            /\ c = "Concave" <=> (ok /\ EigenvalueSigns(terms) = {-1})
            /\ c = "Nonconvex" <=> (ok /\ {-1, 1} \subseteq EigenvalueSigns(terms))

\* getConvexity finds nothing cached and builds the coefficient matrix from
\* the terms of the collection
BuildsMatrix ==
    /\ kind = "Quadratic"
    /\ convexity = "NotSet"
    /\ lastQuery' = "convexity"
    /\ Len(terms) > 0
    /\ ~HasNull(terms)
    /\ ~CoveredByShortcut(terms)

\* C30: in QuadraticTerms::updateConvexity every entry of the coefficient
\* matrix has its row and column inside the matrix: the index of every
\* variable of the collection is smaller than the matrix dimension, the
\* number of distinct variables occurring in the collection.
C30_MatrixEntriesInside ==
    [][BuildsMatrix =>
          \A v \in VariablesOf(terms) : Index(v) < Cardinality(VariablesOf(terms))]_vars

\* the task IDs given to the constructor of a Goto or Conditional task
TargetsOf(t) == {t.ifTrue, t.ifFalse} \ {""}

\* every task object of the graph: those bound to a slot and the sub-tasks
\* of FinalizeSolution
TasksOfGraph ==
    {taskIDMap[i].task : i \in 1..Len(taskIDMap)} \cup {m_tasks[i] : i \in 1..Len(m_tasks)}

\* the names the constructors use as jump targets
JumpTargets ==
    {"SolveIter", "CheckAbsGap", "FinalizeSolution", "AddObjectiveCut", "CheckDualStag",
     "InitIter2", "Terminate"}

\* C27: in every configuration of both strategies every jump target given to
\* a Goto or Conditional task (SolveIter, CheckAbsGap, FinalizeSolution,
\* AddObjectiveCut, CheckDualStag, InitIter2, Terminate) is bound to a slot
\* of the finished graph, so no redirect names a task that does not exist
\* and setNextTask never fails.
C27_JumpTargetsBound ==
    IsStrategy =>
        /\ \A t \in TasksOfGraph :
            /\ TargetsOf(t) \subseteq JumpTargets
            /\ \A target \in TargetsOf(t) : SlotsOf(taskIDMap, target) # {}
        /\ status # "exception"
        /\ lastRedirect # "" => AtCursor = lastRedirect

C27_Witness ==
    /\ cfg.strategy = "NLP"
    /\ lastTask = "FinalizeSolution"
    /\ lastRedirect = "Terminate"
    /\ AtCursor = "Terminate"
    /\ status = "running"

\* C28: in every run of either strategy graph FinalizeSolution is never
\* entered by sequential advance from the slot before it: that slot is the
\* Goto to SolveIter, and whenever FinalizeSolution is the task to run next,
\* the task that ran last is a check task that redirected to it.
C28_FinalizeEnteredByRedirectOnly ==
    (IsStrategy /\ status = "running" /\ AtCursor = "FinalizeSolution") =>
        /\ nextTask > 1
        /\ taskIDMap[nextTask - 1].name = "Goto"
        /\ taskIDMap[nextTask - 1].task.type = "TaskGoto"
        /\ taskIDMap[nextTask - 1].task.ifTrue = "SolveIter"
        /\ lastSlot # nextTask - 1
        /\ lastRedirect = "FinalizeSolution"
        /\ taskIDMap[lastSlot].task.type \in OneTargetTypes
        /\ lastOutcome = "true"

C28_Witness ==
    /\ IsStrategy
    /\ status = "running"
    /\ AtCursor = "FinalizeSolution"
    /\ lastTask = "CheckDualStag"
    /\ lastOutcome = "true"

\* C29: in every graph built with the ESH cut strategy, whatever the number
\* of nonlinear constraints, the interior-point search FindIntPoint is
\* registered and has run before UpdateInteriorPoint and the ESH selection
\* of hyperplane points SelectHPPts run.
C29_InteriorPointFoundFirst ==
    (IsStrategy /\ cfg.esh) =>
        /\ SlotsOf(taskIDMap, "FindIntPoint") # {}
        /\ lastTask \in {"UpdateInteriorPoint", "SelectHPPts"} =>
               \E i \in 1..Len(executed) : executed[i] = "FindIntPoint"

====
